---- MODULE Spec2Model ----
(***************************************************************************)
(* anylist_notify: the reconciliation engine.                              *)
(*                                                                         *)
(* The List Source (remote lists, edited by their users), the SQLite       *)
(* mirror (tables lists and items), the user directory, the startup run    *)
(* of main and the tasks main's event callback spawns, one per event.      *)
(* Every .await of a task is a point where another task may run, so each   *)
(* store, source and sink call is one step.                                *)
(***************************************************************************)
EXTENDS Integers, Sequences, FiniteSets, TLC

\* ---------------------------------------------------------------- bounds

\* How many changes the list handed to filter_own_changes holds at most.
MaxChanges == 2

\* How many edits the remote users make in one run.
MaxEdits == 2

\* How many "lists changed" events the List Source sends in one run.
MaxSignals == 2
MaxClock == 2
MaxTagLen == 5

\* ------------------------------------------------------------ the universe

\* Option<String>: None, Some(s).
None == <<>>
Some(s) == <<s>>

ListIds == {"L1", "L2"}
ItemIds == {"i1", "i2"}
\* The tasks tokio runs for the event callback, besides main.
Tasks == {"t1", "t2"}
Procs == {"main"} \cup Tasks

\* client.user_id(): the authenticated user.
Me == "u1"
Editors == {"u1", "u2"}

ListName(l) == IF l = "L1" THEN "Groceries" ELSE "Hardware"
BaseName(i) == IF i = "i1" THEN "Milk" ELSE "Nails"
AltName(i) == IF i = "i1" THEN "Oat milk" ELSE "Screws"

\* The users a list is shared with: {userId, fullName?, email?}.
SharedUsers(l) ==
  IF l = "L1"
  THEN << [user_id |-> "u1", full_name |-> Some("Ann"), email |-> Some("ann@x")],
          [user_id |-> "u2", full_name |-> Some(""), email |-> Some("bob@x")] >>
  ELSE << [user_id |-> "u2", full_name |-> None, email |-> None],
          [user_id |-> "u3", full_name |-> None, email |-> Some("cy@x")] >>

\* anylist_rs::ListItem
ListItem(i, l, name, checked, by) ==
  [id |-> i, list_id |-> l, name |-> name, details |-> "",
   quantity |-> Some("1"), category |-> None, is_checked |-> checked,
   user_id |-> by]

\* anylist_rs::List
List(l, its) ==
  [id |-> l, name |-> ListName(l), items |-> its, shared_users |-> SharedUsers(l)]

\* The remote lists when the service starts.
InitialRemote ==
  << List("L1", << ListItem("i1", "L1", "Milk", FALSE, None) >>),
     List("L2", << ListItem("i2", "L2", "Nails", FALSE, Some("u2")) >>) >>

\* ------------------------------------------------------------ sequences

RECURSIVE SelectSeqBy(_, _)
\* The entries of s that are in the set keep, in s's order.
SelectSeqBy(s, keep) ==
  IF s = <<>> THEN <<>>
  ELSE (IF Head(s) \in keep THEN <<Head(s)>> ELSE <<>>) \o SelectSeqBy(Tail(s), keep)

\* The sequences that hold every element of the finite set S once.
Orderings(S) ==
  {s \in [1..Cardinality(S) -> S] : \A a \in S : \E k \in 1..Cardinality(S) : s[k] = a}

\* HashMap lookup by item id: collect() keeps the last entry of an id.
Lookup(its, id) ==
  LET ks == {k \in 1..Len(its) : its[k].id = id}
  IN its[CHOOSE k \in ks : \A j \in ks : j <= k]

HasId(its, id) == \E k \in 1..Len(its) : its[k].id = id

\* ------------------------------------------------------------ cache/models.rs

\* From<&anylist_rs::ListItem> for DbItem: the attributing user is not copied.
\* last_seen (the wall clock) is written and never read by the handler.
DbItemFrom(item) ==
  [id |-> item.id, list_id |-> item.list_id, name |-> item.name,
   details |-> item.details, quantity |-> item.quantity,
   category |-> item.category, is_checked |-> item.is_checked]

\* From<&anylist_rs::List> for DbList
DbListFrom(list) == [id |-> list.id, name |-> list.name]

\* The attribution a row read from the items table carries: the table has no
\* such column.
DbItemUserId(d) == None

\* ------------------------------------------------------------ sync/diff.rs

ItemInfo_from_list_item(item) ==
  [id |-> item.id, name |-> item.name, details |-> item.details,
   quantity |-> item.quantity, category |-> item.category,
   user_id |-> item.user_id]

\* A comparison that takes an unset quantity for a change.
detect_field_changes_unset_differs(cached, current) ==
  (IF cached.name # current.name
   THEN << [field |-> "Name", old |-> cached.name, new |-> current.name] >>
   ELSE <<>>)
  \o (IF cached.details # current.details
      THEN << [field |-> "Details", old |-> cached.details, new |-> current.details] >>
      ELSE <<>>)
  \o (IF cached.quantity # current.quantity \/ current.quantity = None
      THEN << [field |-> "Quantity", old |-> cached.quantity, new |-> current.quantity] >>
      ELSE <<>>)
  \o (IF cached.category # current.category
      THEN << [field |-> "Category", old |-> cached.category, new |-> current.category] >>
      ELSE <<>>)

\* A comparison that looks at the category before the quantity.
detect_field_changes_reordered(cached, current) ==
  (IF cached.name # current.name
   THEN << [field |-> "Name", old |-> cached.name, new |-> current.name] >>
   ELSE <<>>)
  \o (IF cached.details # current.details
      THEN << [field |-> "Details", old |-> cached.details, new |-> current.details] >>
      ELSE <<>>)
  \o (IF cached.category # current.category
      THEN << [field |-> "Category", old |-> cached.category, new |-> current.category] >>
      ELSE <<>>)
  \o (IF cached.quantity # current.quantity
      THEN << [field |-> "Quantity", old |-> cached.quantity, new |-> current.quantity] >>
      ELSE <<>>)

detect_field_changes(cached, current) ==
  (IF cached.name # current.name
   THEN << [field |-> "Name", old |-> cached.name, new |-> current.name] >>
   ELSE <<>>)
  \o (IF cached.details # current.details
      THEN << [field |-> "Details", old |-> cached.details, new |-> current.details] >>
      ELSE <<>>)
  \o (IF cached.quantity # current.quantity
      THEN << [field |-> "Quantity", old |-> cached.quantity, new |-> current.quantity] >>
      ELSE <<>>)
  \o (IF cached.category # current.category
      THEN << [field |-> "Category", old |-> cached.category, new |-> current.category] >>
      ELSE <<>>)

\* A first loop that looks the live item up among the live items: none is new.
AddedFrom_against_current(list_id, list_name, cached_items, rest) == <<>>

RECURSIVE AddedFrom_reversed(_, _, _, _)
\* A first loop that runs over the live items from the last to the first.
AddedFrom_reversed(list_id, list_name, cached_items, rest) ==
  IF rest = <<>> THEN <<>>
  ELSE AddedFrom_reversed(list_id, list_name, cached_items, Tail(rest))
       \o (IF ~HasId(cached_items, Head(rest).id)
           THEN << [type |-> "ItemAdded", list_id |-> list_id, list_name |-> list_name,
                    item |-> ItemInfo_from_list_item(Head(rest)),
                    user_id |-> Head(rest).user_id] >>
           ELSE <<>>)

RECURSIVE AddedFrom(_, _, _, _)
AddedFrom(list_id, list_name, cached_items, rest) ==
  IF rest = <<>> THEN <<>>
  ELSE (IF ~HasId(cached_items, Head(rest).id)
        THEN << [type |-> "ItemAdded", list_id |-> list_id, list_name |-> list_name,
                 item |-> ItemInfo_from_list_item(Head(rest)),
                 user_id |-> Head(rest).user_id] >>
        ELSE <<>>)
       \o AddedFrom(list_id, list_name, cached_items, Tail(rest))

\* A second loop that names the list instead of the cached item.
RemovedFrom_naming_list(list_id, list_name, rest, current_items) ==
  LET gone == SelectSeq(rest, LAMBDA cached_item : ~HasId(current_items, cached_item.id))
  IN [k \in 1..Len(gone) |->
        [type |-> "ItemRemoved", list_id |-> list_id, list_name |-> list_name,
         item_name |-> list_name, user_id |-> DbItemUserId(gone[k])]]

RECURSIVE RemovedFrom(_, _, _, _)
RemovedFrom(list_id, list_name, rest, current_items) ==
  IF rest = <<>> THEN <<>>
  ELSE (IF ~HasId(current_items, Head(rest).id)
        THEN << [type |-> "ItemRemoved", list_id |-> list_id, list_name |-> list_name,
                 item_name |-> Head(rest).name,
                 user_id |-> DbItemUserId(Head(rest))] >>
        ELSE <<>>)
       \o RemovedFrom(list_id, list_name, Tail(rest), current_items)

\* A body that tells the transition from the cached flag.
item_changes_by_cached_flag(list_id, list_name, cached_item, current_item) ==
  LET field_changes == detect_field_changes(cached_item, current_item)
  IN (IF cached_item.is_checked # current_item.is_checked
      THEN << [type |-> IF cached_item.is_checked
                        THEN "ItemChecked" ELSE "ItemUnchecked",
               list_id |-> list_id, list_name |-> list_name,
               item_name |-> current_item.name,
               user_id |-> current_item.user_id] >>
      ELSE <<>>)
     \o (IF field_changes # <<>>
         THEN << [type |-> "ItemModified", list_id |-> list_id,
                  list_name |-> list_name,
                  item_name |-> current_item.name,
                  changes |-> field_changes,
                  user_id |-> current_item.user_id] >>
         ELSE <<>>)

\* A body that looks at the fields only when the flag is unchanged.
item_changes_either(list_id, list_name, cached_item, current_item) ==
  LET field_changes == detect_field_changes(cached_item, current_item)
  IN IF cached_item.is_checked # current_item.is_checked
     THEN << [type |-> IF current_item.is_checked
                       THEN "ItemChecked" ELSE "ItemUnchecked",
              list_id |-> list_id, list_name |-> list_name,
              item_name |-> current_item.name,
              user_id |-> current_item.user_id] >>
     ELSE IF field_changes # <<>>
          THEN << [type |-> "ItemModified", list_id |-> list_id,
                   list_name |-> list_name,
                   item_name |-> current_item.name,
                   changes |-> field_changes,
                   user_id |-> current_item.user_id] >>
          ELSE <<>>

\* The third loop's body for an item that is cached: the checked transition,
\* then the field changes.
item_changes(list_id, list_name, cached_item, current_item) ==
  LET field_changes == detect_field_changes(cached_item, current_item)
  IN (IF cached_item.is_checked # current_item.is_checked
      THEN << [type |-> IF current_item.is_checked
                        THEN "ItemChecked" ELSE "ItemUnchecked",
               list_id |-> list_id, list_name |-> list_name,
               item_name |-> current_item.name,
               user_id |-> current_item.user_id] >>
      ELSE <<>>)
     \o (IF field_changes # <<>>
         THEN << [type |-> "ItemModified", list_id |-> list_id,
                  list_name |-> list_name,
                  item_name |-> current_item.name,
                  changes |-> field_changes,
                  user_id |-> current_item.user_id] >>
         ELSE <<>>)

RECURSIVE ModifiedFrom(_, _, _, _)
ModifiedFrom(list_id, list_name, cached_items, rest) ==
  IF rest = <<>> THEN <<>>
  ELSE (IF HasId(cached_items, Head(rest).id)
        THEN item_changes(list_id, list_name,
                          Lookup(cached_items, Head(rest).id), Head(rest))
        ELSE <<>>)
       \o ModifiedFrom(list_id, list_name, cached_items, Tail(rest))

\* Added, then removed, then the checked transitions and modifications.
detect_changes(list_id, list_name, cached_items, current_items) ==
  AddedFrom(list_id, list_name, cached_items, current_items)
  \o RemovedFrom(list_id, list_name, cached_items, current_items)
  \o ModifiedFrom(list_id, list_name, cached_items, current_items)

\* ------------------------------------------------------------ sync/handler.rs

\* A closure that also drops the changes nobody is named for.
KeepChange_attributed_only(change) ==
  IF change.user_id = None THEN FALSE ELSE change.user_id[1] # Me

\* The filter's closure: keep a change unless its user is the authenticated one.
KeepChange(change) ==
  IF change.user_id = None THEN TRUE ELSE change.user_id[1] # Me

RECURSIVE filter_own_changes(_)
filter_own_changes(changes) ==
  IF changes = <<>> THEN <<>>
  ELSE (IF KeepChange(Head(changes)) THEN <<Head(changes)>> ELSE <<>>)
       \o filter_own_changes(Tail(changes))

\* Full name if there is one and it is not empty, else the email, else the id.
DisplayName(user) ==
  IF user.full_name # None /\ user.full_name[1] # "" THEN user.full_name[1]
  ELSE IF user.email # None THEN user.email[1]
  ELSE user.user_id

RECURSIVE InsertUsers(_, _)
InsertUsers(names, users) ==
  IF users = <<>> THEN names
  ELSE LET u == Head(users)
           ids == DOMAIN names \cup {u.user_id}
       IN InsertUsers([x \in ids |-> IF x = u.user_id THEN DisplayName(u) ELSE names[x]],
                      Tail(users))

RECURSIVE InsertAllUsers_rebuilding(_, _)
\* An update that builds the map anew from the fetched lists.
InsertAllUsers_rebuilding(names, ls) ==
  IF ls = <<>> THEN << >>
  ELSE InsertUsers(InsertAllUsers_rebuilding(names, SubSeq(ls, 1, Len(ls) - 1)),
                   ls[Len(ls)].shared_users)

RECURSIVE InsertAllUsers(_, _)
\* names.insert for every shared user of every list, in order.
InsertAllUsers(names, ls) ==
  IF ls = <<>> THEN names
  ELSE InsertAllUsers(InsertUsers(names, Head(ls).shared_users), Tail(ls))

\* process_list_changes: the filter runs only if the configuration asks for it.
filter_if_configured(enabled, detected) ==
  IF enabled THEN filter_own_changes(detected) ELSE detected

\* ------------------------------------------------------------ the state

VARIABLES
  remote,       \* the List Source: what get_lists() returns now
  edits,        \* how many edits the remote users have made (the remote's version)
  signals,      \* how many "lists changed" events the List Source has sent
  dbLists,      \* table lists: id -> row
  dbItems,      \* table items: id -> row (id alone is the primary key)
  user_names,   \* SyncHandler.user_names
  filter_own,   \* config.notifications.filter_own_changes
  pc,           \* where main and each spawned task stand
  lists,        \* the lists a run fetched (lists / current_lists)
  fetchedVer,   \* the remote's version when the run fetched
  callOk,       \* whether the run's last source, store or sink call succeeded
  idx,          \* the list the run's loop is at
  changes,      \* the changes of that list, after filtering
  outcomes,     \* per change handed to the sink so far: did notify() succeed
  itemIdx,      \* the item sync_list's loop is at
  sweep,        \* detect_deleted_lists: the cached-only lists still to delete
  listErrs,     \* the lists whose processing failed in this cycle (error! log)
  result,       \* what the task's last handle_event returned
  writtenVer,   \* per list row: the version of the fetch that wrote it last
  call,         \* a function under test, with its arguments
  ret           \* what that function returned

vars ==
  << remote, edits, signals, dbLists, dbItems, user_names, filter_own, pc, lists,
     fetchedVer, callOk, idx, changes, outcomes, itemIdx, sweep, listErrs,
     result, writtenVer, call, ret >>

InFlight(t) == pc[t] # "idle"

\* No function is under test while the service runs.
NoCall == [fn |-> "none"]

CurrentList(p) == lists[p][idx[p]]

Init ==
  /\ remote = InitialRemote
  /\ edits = 0
  /\ signals = 0
  /\ dbLists = << >>
  /\ dbItems = << >>
  /\ user_names = << >>
  /\ filter_own \in BOOLEAN
  /\ pc = [p \in Procs |-> IF p = "main" THEN "init_get_lists" ELSE "idle"]
  /\ lists = [p \in Procs |-> <<>>]
  /\ fetchedVer = [p \in Procs |-> 0]
  /\ callOk = [p \in Procs |-> TRUE]
  /\ idx = [p \in Procs |-> 0]
  /\ changes = [p \in Procs |-> <<>>]
  /\ outcomes = [p \in Procs |-> <<>>]
  /\ itemIdx = [p \in Procs |-> 0]
  /\ sweep = [p \in Procs |-> <<>>]
  /\ listErrs = [p \in Procs |-> {}]
  /\ result = [p \in Procs |-> "none"]
  /\ writtenVer = [l \in ListIds |-> 0]
  /\ call = NoCall
  /\ ret = None

\* ------------------------------------------------------------ the List Source

RemoteIds == {remote[k].id : k \in 1..Len(remote)}

\* The remote with list l's items replaced by its.
WithItems(l, its) ==
  [k \in 1..Len(remote) |->
     IF remote[k].id = l THEN [remote[k] EXCEPT !.items = its] ELSE remote[k]]

RemoteIndex(l) == CHOOSE k \in 1..Len(remote) : remote[k].id = l

ItemsOf(l) == remote[RemoteIndex(l)].items

\* One edit by a remote user; the items untouched keep their place.
Edit(l, its) ==
  /\ edits < MaxEdits
  /\ l \in RemoteIds
  /\ remote' = WithItems(l, its)
  /\ edits' = edits + 1
  /\ UNCHANGED << signals, dbLists, dbItems, user_names, filter_own, call, ret, pc, lists, fetchedVer,
                  callOk, idx, changes, outcomes, itemIdx, sweep, listErrs,
                  result, writtenVer >>

user_checks_item(l, i, by) ==
  /\ l \in RemoteIds
  /\ HasId(ItemsOf(l), i)
  /\ Edit(l, [k \in 1..Len(ItemsOf(l)) |->
                IF ItemsOf(l)[k].id = i
                THEN [ItemsOf(l)[k] EXCEPT !.is_checked = ~@, !.user_id = Some(by)]
                ELSE ItemsOf(l)[k]])

user_renames_item(l, i, by) ==
  /\ l \in RemoteIds
  /\ HasId(ItemsOf(l), i)
  /\ Edit(l, [k \in 1..Len(ItemsOf(l)) |->
                IF ItemsOf(l)[k].id = i
                THEN [ItemsOf(l)[k] EXCEPT
                        !.name = IF @ = BaseName(i) THEN AltName(i) ELSE BaseName(i),
                        !.user_id = Some(by)]
                ELSE ItemsOf(l)[k]])

user_removes_item(l, i) ==
  /\ l \in RemoteIds
  /\ HasId(ItemsOf(l), i)
  /\ Edit(l, SelectSeq(ItemsOf(l), LAMBDA it : it.id # i))

user_adds_item(l, i, by) ==
  /\ l \in RemoteIds
  /\ ~HasId(ItemsOf(l), i)
  /\ Edit(l, Append(ItemsOf(l), ListItem(i, l, BaseName(i), FALSE, Some(by))))

user_deletes_list(l) ==
  /\ edits < MaxEdits
  /\ l \in RemoteIds
  /\ remote' = SelectSeq(remote, LAMBDA ls : ls.id # l)
  /\ edits' = edits + 1
  /\ UNCHANGED << signals, dbLists, dbItems, user_names, filter_own, call, ret, pc, lists, fetchedVer,
                  callOk, idx, changes, outcomes, itemIdx, sweep, listErrs,
                  result, writtenVer >>

\* ------------------------------------------------------------ cache/sqlite.rs

\* INSERT INTO lists ... ON CONFLICT(id) DO UPDATE
UpsertListRow(rows, db_list) ==
  [l \in DOMAIN rows \cup {db_list.id} |-> IF l = db_list.id THEN db_list ELSE rows[l]]

\* An upsert whose ON CONFLICT(id) DO UPDATE leaves list_id as stored.
UpsertItemRow_keeping_list(rows, db_item) ==
  [i \in DOMAIN rows \cup {db_item.id} |->
     IF i # db_item.id THEN rows[i]
     ELSE IF i \in DOMAIN rows THEN [db_item EXCEPT !.list_id = rows[i].list_id]
          ELSE db_item]

\* INSERT INTO items ... ON CONFLICT(id) DO UPDATE SET list_id = ..., every column
UpsertItemRow(rows, db_item) ==
  [i \in DOMAIN rows \cup {db_item.id} |-> IF i = db_item.id THEN db_item ELSE rows[i]]

\* A table without the foreign key: any item row is accepted.
ForeignKeyOff(rows, db_item) == TRUE

\* FOREIGN KEY (list_id) REFERENCES lists(id): an item row needs its list row.
ForeignKeyOk(rows, db_item) == db_item.list_id \in DOMAIN rows

\* SELECT ... FROM items WHERE list_id = ?  (the rows, in no stated order)
ItemRowsOf(list_id) == {dbItems[i] : i \in {j \in DOMAIN dbItems : dbItems[j].list_id = list_id}}

\* DELETE FROM lists WHERE id = ?
ListsAfterDelete(list_id) == [l \in DOMAIN dbLists \ {list_id} |-> dbLists[l]]

\* A delete_list without the cascade: the item rows of the list stay.
ItemsAfterDelete_no_cascade(list_id) == dbItems

\* ... ON DELETE CASCADE
ItemsAfterDelete(list_id) ==
  [i \in {j \in DOMAIN dbItems : dbItems[j].list_id # list_id} |-> dbItems[i]]

\* ORDER BY name
NameRank(l) == IF l = "L1" THEN 1 ELSE 2

RECURSIVE SortedByName(_)
SortedByName(S) ==
  IF S = {} THEN <<>>
  ELSE LET first == CHOOSE l \in S : \A m \in S : NameRank(l) <= NameRank(m)
       IN <<first>> \o SortedByName(S \ {first})

\* ------------------------------------------------------------ control

\* A run ends: initialize_cache or handle_event returns res, its locals are dropped.
finish(p, newpc, res) ==
  /\ pc' = [pc EXCEPT ![p] = newpc]
  /\ result' = [result EXCEPT ![p] = res]
  /\ lists' = [lists EXCEPT ![p] = <<>>]
  /\ idx' = [idx EXCEPT ![p] = 0]
  /\ changes' = [changes EXCEPT ![p] = <<>>]
  /\ outcomes' = [outcomes EXCEPT ![p] = <<>>]
  /\ itemIdx' = [itemIdx EXCEPT ![p] = 0]
  /\ sweep' = [sweep EXCEPT ![p] = <<>>]
  /\ listErrs' = [listErrs EXCEPT ![p] = {}]
  /\ fetchedVer' = [fetchedVer EXCEPT ![p] = 0]

\* The run moves to newpc and to list newidx; failed is the list it logs, if any.
goto_list(p, newpc, newidx, failed) ==
  /\ pc' = [pc EXCEPT ![p] = newpc]
  /\ idx' = [idx EXCEPT ![p] = newidx]
  /\ changes' = [changes EXCEPT ![p] = <<>>]
  /\ outcomes' = [outcomes EXCEPT ![p] = <<>>]
  /\ itemIdx' = [itemIdx EXCEPT ![p] = 0]
  /\ listErrs' = [listErrs EXCEPT ![p] = @ \cup failed]
  /\ UNCHANGED << result, lists, sweep, fetchedVer >>

\* A loop that propagates the Err of process_list_changes: the cycle ends there.
process_list_returns_propagating(t, failed) ==
  IF failed
  THEN finish(t, "idle", "Failed to process list")
  ELSE goto_list(t, IF idx[t] < Len(lists[t]) THEN "get_items" ELSE "get_all_lists",
                 idx[t] + 1, {})

\* handle_shopping_lists_changed's loop after process_list_changes returned:
\* an Err is logged and the loop goes on; after the last list, the sweep.
process_list_returns(t, failed) ==
  goto_list(t, IF idx[t] < Len(lists[t]) THEN "get_items" ELSE "get_all_lists",
            idx[t] + 1, IF failed THEN {CurrentList(t).id} ELSE {})

\* initialize_cache's loop after sync_list returned: an Err ends the run (and main),
\* after the last list the cache is initialized.
init_sync_returns(failed) ==
  IF failed THEN finish("main", "exited", "Failed to sync list")
  ELSE IF idx["main"] < Len(lists["main"])
       THEN goto_list("main", "upsert_list", idx["main"] + 1, {})
       ELSE finish("main", "running", "ok")

sync_list_returns(p, failed) ==
  IF p = "main" THEN init_sync_returns(failed) ELSE process_list_returns(p, failed)

\* ------------------------------------------------------------ main: the startup run

\* initialize_cache: self.client.get_lists().await ... ?
init_get_lists(ok) ==
  /\ pc["main"] = "init_get_lists"
  /\ callOk' = [callOk EXCEPT !["main"] = ok]
  /\ IF ok
     THEN /\ pc' = [pc EXCEPT !["main"] = "update_user_names"]
          /\ lists' = [lists EXCEPT !["main"] = remote]
          /\ fetchedVer' = [fetchedVer EXCEPT !["main"] = edits]
          /\ UNCHANGED << result, idx, changes, outcomes, itemIdx, sweep, listErrs >>
     ELSE finish("main", "exited", "Failed to fetch initial lists")
  /\ UNCHANGED << remote, edits, signals, dbLists, dbItems, user_names, filter_own, call, ret, writtenVer >>

\* ------------------------------------------------------------ a spawned task

TaskRank(t) == IF t = "t1" THEN 1 ELSE 2

\* tokio::spawn gives every event a fresh task: the first free name stands for it.
FreeTask(t) ==
  /\ pc[t] = "idle"
  /\ \A u \in Tasks : pc[u] = "idle" => TaskRank(t) <= TaskRank(u)

\* A callback that is registered before the startup run: events are handled at
\* any time.
handle_event_before_startup(t, event) ==
  /\ FreeTask(t)
  /\ IF event = "ShoppingListsChanged"
     THEN /\ signals < MaxSignals
          /\ signals' = signals + 1
          /\ pc' = [pc EXCEPT ![t] = "get_lists"]
          /\ result' = [result EXCEPT ![t] = "none"]
     ELSE /\ result' = [result EXCEPT ![t] = "ok"]
          /\ UNCHANGED << pc, signals >>
  /\ callOk' = [callOk EXCEPT ![t] = TRUE]
  /\ UNCHANGED << remote, edits, dbLists, dbItems, user_names, filter_own, call, ret,
                  lists, fetchedVer, idx, changes, outcomes, itemIdx, sweep, listErrs,
                  writtenVer >>

\* A handler that starts a cycle on every event.
handle_event_any_signal(t, event) ==
  /\ pc["main"] = "running"
  /\ FreeTask(t)
  /\ signals < MaxSignals
  /\ signals' = IF event = "ShoppingListsChanged" THEN signals + 1 ELSE signals
  /\ pc' = [pc EXCEPT ![t] = "get_lists"]
  /\ result' = [result EXCEPT ![t] = "none"]
  /\ callOk' = [callOk EXCEPT ![t] = TRUE]
  /\ UNCHANGED << remote, edits, dbLists, dbItems, user_names, filter_own, call, ret, lists,
                  fetchedVer, idx, changes, outcomes, itemIdx, sweep, listErrs,
                  writtenVer >>

\* event_callback spawns handler.handle_event(event) once main is past the startup run.
handle_event(t, event) ==
  /\ pc["main"] = "running"
  /\ FreeTask(t)
  /\ IF event = "ShoppingListsChanged"
     THEN /\ signals < MaxSignals
          /\ signals' = signals + 1
          /\ pc' = [pc EXCEPT ![t] = "get_lists"]
          /\ result' = [result EXCEPT ![t] = "none"]
     ELSE /\ result' = [result EXCEPT ![t] = "ok"]
          /\ UNCHANGED << pc, signals >>
  /\ callOk' = [callOk EXCEPT ![t] = TRUE]
  /\ UNCHANGED << remote, edits, dbLists, dbItems, user_names, filter_own, call, ret, lists,
                  fetchedVer, idx, changes, outcomes, itemIdx, sweep, listErrs,
                  writtenVer >>

\* A fetch whose failure is swallowed: the cycle goes on with no list fetched.
get_lists_swallowing(t, ok) ==
  /\ pc[t] = "get_lists"
  /\ callOk' = [callOk EXCEPT ![t] = ok]
  /\ pc' = [pc EXCEPT ![t] = "update_user_names"]
  /\ lists' = [lists EXCEPT ![t] = IF ok THEN remote ELSE <<>>]
  /\ fetchedVer' = [fetchedVer EXCEPT ![t] = edits]
  /\ UNCHANGED << result, idx, changes, outcomes, itemIdx, sweep, listErrs >>
  /\ UNCHANGED << remote, edits, signals, dbLists, dbItems, user_names, filter_own, call, ret, writtenVer >>

\* handle_shopping_lists_changed: self.client.get_lists().await ... ?
get_lists(t, ok) ==
  /\ pc[t] = "get_lists"
  /\ callOk' = [callOk EXCEPT ![t] = ok]
  /\ IF ok
     THEN /\ pc' = [pc EXCEPT ![t] = "update_user_names"]
          /\ lists' = [lists EXCEPT ![t] = remote]
          /\ fetchedVer' = [fetchedVer EXCEPT ![t] = edits]
          /\ UNCHANGED << result, idx, changes, outcomes, itemIdx, sweep, listErrs >>
     ELSE finish(t, "idle", "Failed to fetch updated lists")
  /\ UNCHANGED << remote, edits, signals, dbLists, dbItems, user_names, filter_own, call, ret, writtenVer >>

\* A cycle that goes to its lists without updating the user directory.
update_user_names_skipped(p) ==
  /\ pc[p] = "update_user_names"
  /\ user_names' = user_names
  /\ IF lists[p] # <<>>
     THEN goto_list(p, IF p = "main" THEN "upsert_list" ELSE "get_items", 1, {})
     ELSE IF p = "main"
          THEN finish("main", "running", "ok")
          ELSE goto_list(p, "get_all_lists", 1, {})
  /\ UNCHANGED << remote, edits, signals, dbLists, dbItems, filter_own, call, ret, callOk, writtenVer >>

\* self.update_user_names(&lists).await, then the loop over the lists starts.
update_user_names(p) ==
  /\ pc[p] = "update_user_names"
  /\ user_names' = InsertAllUsers(user_names, lists[p])
  /\ IF lists[p] # <<>>
     THEN goto_list(p, IF p = "main" THEN "upsert_list" ELSE "get_items", 1, {})
     ELSE IF p = "main"
          THEN finish("main", "running", "ok")
          ELSE goto_list(p, "get_all_lists", 1, {})
  /\ UNCHANGED << remote, edits, signals, dbLists, dbItems, filter_own, call, ret, callOk, writtenVer >>

\* A process_list_changes that returns early when there is nothing to notify.
get_items_skipping_sync(t, ok) ==
  /\ pc[t] = "get_items"
  /\ IF ok
     THEN \E cached_items \in Orderings(ItemRowsOf(CurrentList(t).id)) :
            LET current_list == CurrentList(t)
                detected == detect_changes(current_list.id, current_list.name,
                                           cached_items, current_list.items)
                kept == filter_if_configured(filter_own, detected)
            IN IF kept # <<>>
               THEN /\ changes' = [changes EXCEPT ![t] = kept]
                    /\ pc' = [pc EXCEPT ![t] = "notify"]
                    /\ UNCHANGED << result, lists, idx, outcomes, itemIdx, sweep,
                                    listErrs, fetchedVer >>
               ELSE process_list_returns(t, FALSE)
     ELSE process_list_returns(t, TRUE)
  /\ callOk' = [callOk EXCEPT ![t] = ok]
  /\ UNCHANGED << remote, edits, signals, dbLists, dbItems, user_names, filter_own, call, ret,
                  writtenVer >>

\* process_list_changes up to the first notify: get_items(..).await ?, then the
\* diff and the filter, which do not yield.
get_items(t, ok) ==
  /\ pc[t] = "get_items"
  /\ IF ok
     THEN \E cached_items \in Orderings(ItemRowsOf(CurrentList(t).id)) :
            LET current_list == CurrentList(t)
                detected == detect_changes(current_list.id, current_list.name,
                                           cached_items, current_list.items)
                kept == filter_if_configured(filter_own, detected)
            IN /\ changes' = [changes EXCEPT ![t] = kept]
               /\ pc' = [pc EXCEPT ![t] =
                           IF kept # <<>> THEN "notify" ELSE "upsert_list"]
               /\ UNCHANGED << result, lists, idx, outcomes, itemIdx, sweep,
                               listErrs, fetchedVer >>
     ELSE process_list_returns(t, TRUE)
  /\ callOk' = [callOk EXCEPT ![t] = ok]
  /\ UNCHANGED << remote, edits, signals, dbLists, dbItems, user_names, filter_own, call, ret,
                  writtenVer >>

\* A notify loop with notify(change).await?: the first Err ends the list.
notify_propagating(t, ok) ==
  /\ pc[t] = "notify"
  /\ IF ok
     THEN /\ outcomes' = [outcomes EXCEPT ![t] = Append(@, ok)]
          /\ pc' = [pc EXCEPT ![t] =
                      IF Len(outcomes[t]) + 1 < Len(changes[t]) THEN "notify"
                      ELSE "upsert_list"]
          /\ UNCHANGED << lists, fetchedVer, idx, changes, itemIdx, sweep, listErrs,
                          result >>
     ELSE process_list_returns(t, TRUE)
  /\ callOk' = [callOk EXCEPT ![t] = ok]
  /\ UNCHANGED << remote, edits, signals, dbLists, dbItems, user_names, filter_own, call, ret,
                  writtenVer >>

\* A notify loop that tries a failed dispatch again.
notify_retrying(t, ok) ==
  /\ pc[t] = "notify"
  /\ outcomes' = [outcomes EXCEPT ![t] = IF ok THEN Append(@, ok) ELSE @]
  /\ pc' = [pc EXCEPT ![t] =
              IF ok /\ Len(outcomes[t]) + 1 >= Len(changes[t]) THEN "upsert_list"
              ELSE "notify"]
  /\ callOk' = [callOk EXCEPT ![t] = ok]
  /\ UNCHANGED << remote, edits, signals, dbLists, dbItems, user_names, filter_own, call, ret, lists,
                  fetchedVer, idx, changes, itemIdx, sweep, listErrs, result,
                  writtenVer >>

\* A notify loop that gives up on the list's remaining events after a failure.
notify_stopping(t, ok) ==
  /\ pc[t] = "notify"
  /\ outcomes' = [outcomes EXCEPT ![t] = Append(@, ok)]
  /\ pc' = [pc EXCEPT ![t] =
              IF ok /\ Len(outcomes[t]) + 1 < Len(changes[t]) THEN "notify"
              ELSE "upsert_list"]
  /\ callOk' = [callOk EXCEPT ![t] = ok]
  /\ UNCHANGED << remote, edits, signals, dbLists, dbItems, user_names, filter_own, call, ret, lists,
                  fetchedVer, idx, changes, itemIdx, sweep, listErrs, result,
                  writtenVer >>

\* self.notifier.notify(change).await: an Err is logged, the loop goes on.
notify(t, ok) ==
  /\ pc[t] = "notify"
  /\ outcomes' = [outcomes EXCEPT ![t] = Append(@, ok)]
  /\ pc' = [pc EXCEPT ![t] =
              IF Len(outcomes[t]) + 1 < Len(changes[t]) THEN "notify" ELSE "upsert_list"]
  /\ callOk' = [callOk EXCEPT ![t] = ok]
  /\ UNCHANGED << remote, edits, signals, dbLists, dbItems, user_names, filter_own, call, ret, lists,
                  fetchedVer, idx, changes, itemIdx, sweep, listErrs, result,
                  writtenVer >>

\* ------------------------------------------------------------ sync_list, step by step

\* sync_list: self.upsert_list(&db_list).await ?
upsert_list(p, ok) ==
  /\ pc[p] = "upsert_list"
  /\ IF ok
     THEN /\ dbLists' = UpsertListRow(dbLists, DbListFrom(CurrentList(p)))
          /\ writtenVer' = [writtenVer EXCEPT ![CurrentList(p).id] = fetchedVer[p]]
          /\ IF CurrentList(p).items # <<>>
             THEN /\ pc' = [pc EXCEPT ![p] = "upsert_item"]
                  /\ itemIdx' = [itemIdx EXCEPT ![p] = 1]
                  /\ UNCHANGED << result, lists, idx, changes, outcomes, sweep,
                                  listErrs, fetchedVer >>
             ELSE sync_list_returns(p, FALSE)
     ELSE /\ sync_list_returns(p, TRUE)
          /\ UNCHANGED << dbLists, writtenVer >>
  /\ callOk' = [callOk EXCEPT ![p] = ok]
  /\ UNCHANGED << remote, edits, signals, dbItems, user_names, filter_own, call, ret >>

\* A sync_list that, when an item fails, takes back the rows of the items it wrote.
upsert_item_undoing(p, ok) ==
  /\ pc[p] = "upsert_item"
  /\ LET db_item == DbItemFrom(CurrentList(p).items[itemIdx[p]])
         written == {CurrentList(p).items[k].id : k \in 1..(itemIdx[p] - 1)}
     IN IF ok /\ ForeignKeyOk(dbLists, db_item)
        THEN /\ dbItems' = UpsertItemRow(dbItems, db_item)
             /\ IF itemIdx[p] < Len(CurrentList(p).items)
                THEN /\ itemIdx' = [itemIdx EXCEPT ![p] = @ + 1]
                     /\ UNCHANGED << pc, result, lists, idx, changes, outcomes, sweep,
                                     listErrs, fetchedVer >>
                ELSE sync_list_returns(p, FALSE)
        ELSE /\ sync_list_returns(p, TRUE)
             /\ dbItems' = [i \in DOMAIN dbItems \ written |-> dbItems[i]]
  /\ callOk' = [callOk EXCEPT ![p] =
                  ok /\ ForeignKeyOk(dbLists, DbItemFrom(CurrentList(p).items[itemIdx[p]]))]
  /\ UNCHANGED << remote, edits, signals, dbLists, user_names, filter_own, call, ret, writtenVer >>

\* sync_list: self.upsert_item(&db_item).await ? for the item the loop is at
upsert_item(p, ok) ==
  /\ pc[p] = "upsert_item"
  /\ LET db_item == DbItemFrom(CurrentList(p).items[itemIdx[p]])
     IN IF ok /\ ForeignKeyOk(dbLists, db_item)
        THEN /\ dbItems' = UpsertItemRow(dbItems, db_item)
             /\ IF itemIdx[p] < Len(CurrentList(p).items)
                THEN /\ itemIdx' = [itemIdx EXCEPT ![p] = @ + 1]
                     /\ UNCHANGED << pc, result, lists, idx, changes, outcomes, sweep,
                                     listErrs, fetchedVer >>
                ELSE sync_list_returns(p, FALSE)
        ELSE /\ sync_list_returns(p, TRUE)
             /\ UNCHANGED dbItems
  /\ callOk' = [callOk EXCEPT ![p] =
                  ok /\ ForeignKeyOk(dbLists, DbItemFrom(CurrentList(p).items[itemIdx[p]]))]
  /\ UNCHANGED << remote, edits, signals, dbLists, user_names, filter_own, call, ret, writtenVer >>

\* ------------------------------------------------------------ detect_deleted_lists

\* self.cache.get_all_lists().await ?; the loop then visits the cached lists whose
\* id is not among the fetched ones.
get_all_lists(t, ok) ==
  /\ pc[t] = "get_all_lists"
  /\ IF ok
     THEN LET current_ids == {lists[t][k].id : k \in 1..Len(lists[t])}
              gone == SelectSeqBy(SortedByName(DOMAIN dbLists), ListIds \ current_ids)
          IN IF gone # <<>>
             THEN /\ pc' = [pc EXCEPT ![t] = "delete_list"]
                  /\ sweep' = [sweep EXCEPT ![t] = gone]
                  /\ UNCHANGED << result, lists, idx, changes, outcomes, itemIdx,
                                  listErrs, fetchedVer >>
             ELSE finish(t, "idle", "ok")
     ELSE finish(t, "idle", "Failed to get cached lists")
  /\ callOk' = [callOk EXCEPT ![t] = ok]
  /\ UNCHANGED << remote, edits, signals, dbLists, dbItems, user_names, filter_own, call, ret,
                  writtenVer >>

\* self.cache.delete_list(&cached_list.id).await ?
delete_list(t, ok) ==
  /\ pc[t] = "delete_list"
  /\ IF ok
     THEN /\ dbLists' = ListsAfterDelete(Head(sweep[t]))
          /\ dbItems' = ItemsAfterDelete(Head(sweep[t]))
          /\ IF Tail(sweep[t]) # <<>>
             THEN /\ sweep' = [sweep EXCEPT ![t] = Tail(@)]
                  /\ UNCHANGED << pc, result, lists, idx, changes, outcomes, itemIdx,
                                  listErrs, fetchedVer >>
             ELSE finish(t, "idle", "ok")
     ELSE /\ finish(t, "idle", "Failed to delete list from cache")
          /\ UNCHANGED << dbLists, dbItems >>
  /\ callOk' = [callOk EXCEPT ![t] = ok]
  /\ UNCHANGED << remote, edits, signals, user_names, filter_own, call, ret, writtenVer >>

\* ------------------------------------------------------------ specifications

Events == {"ShoppingListsChanged", "Heartbeat", "Other"}

\* What the remote users do in a run: they check, rename and remove the milk, put
\* the nails on the groceries list too, and delete the hardware list.
RemoteEdit ==
  \/ \E by \in Editors : user_checks_item("L1", "i1", by)
  \/ user_renames_item("L1", "i1", "u2")
  \/ user_removes_item("L1", "i1")
  \/ user_adds_item("L1", "i2", "u2")
  \/ user_deletes_list("L2")

\* Every call may fail, every event may arrive while earlier ones are handled.
Next ==
  \/ RemoteEdit
  \/ \E ok \in BOOLEAN : init_get_lists(ok)
  \/ \E p \in Procs : update_user_names(p)
  \/ \E p \in Procs, ok \in BOOLEAN : upsert_list(p, ok)
  \/ \E p \in Procs, ok \in BOOLEAN : upsert_item(p, ok)
  \/ \E t \in Tasks, event \in Events : handle_event(t, event)
  \/ \E t \in Tasks, ok \in BOOLEAN : get_lists(t, ok)
  \/ \E t \in Tasks, ok \in BOOLEAN : get_items(t, ok)
  \/ \E t \in Tasks, ok \in BOOLEAN : notify(t, ok)
  \/ \E t \in Tasks, ok \in BOOLEAN : get_all_lists(t, ok)
  \/ \E t \in Tasks, ok \in BOOLEAN : delete_list(t, ok)

Spec == Init /\ [][Next]_vars

\* No call fails and an event arrives only when no task is in flight.
NextSeq ==
  \/ RemoteEdit
  \/ init_get_lists(TRUE)
  \/ \E p \in Procs : update_user_names(p)
  \/ \E p \in Procs : upsert_list(p, TRUE)
  \/ \E p \in Procs : upsert_item(p, TRUE)
  \/ \E t \in Tasks, event \in Events :
       (\A u \in Tasks : pc[u] = "idle") /\ handle_event(t, event)
  \/ \E t \in Tasks : get_lists(t, TRUE)
  \/ \E t \in Tasks : get_items(t, TRUE)
  \/ \E t \in Tasks : notify(t, TRUE)
  \/ \E t \in Tasks : get_all_lists(t, TRUE)
  \/ \E t \in Tasks : delete_list(t, TRUE)

SpecSeq == Init /\ [][NextSeq]_vars

\* Every call may fail, and an event arrives only when no task is in flight.
NextSerial ==
  \/ RemoteEdit
  \/ \E ok \in BOOLEAN : init_get_lists(ok)
  \/ \E p \in Procs : update_user_names(p)
  \/ \E p \in Procs, ok \in BOOLEAN : upsert_list(p, ok)
  \/ \E p \in Procs, ok \in BOOLEAN : upsert_item(p, ok)
  \/ \E t \in Tasks, event \in Events :
       (\A u \in Tasks : pc[u] = "idle") /\ handle_event(t, event)
  \/ \E t \in Tasks, ok \in BOOLEAN : get_lists(t, ok)
  \/ \E t \in Tasks, ok \in BOOLEAN : get_items(t, ok)
  \/ \E t \in Tasks, ok \in BOOLEAN : notify(t, ok)
  \/ \E t \in Tasks, ok \in BOOLEAN : get_all_lists(t, ok)
  \/ \E t \in Tasks, ok \in BOOLEAN : delete_list(t, ok)

SpecSerial == Init /\ [][NextSerial]_vars

\* The call a cycle is suspended on returns, with Ok or Err, and the cycle runs
\* to its next call.
CycleStep(t) ==
  \/ \E ok \in BOOLEAN : get_lists(t, ok)
  \/ update_user_names(t)
  \/ \E ok \in BOOLEAN : get_items(t, ok)
  \/ \E ok \in BOOLEAN : notify(t, ok)
  \/ \E ok \in BOOLEAN : upsert_list(t, ok)
  \/ \E ok \in BOOLEAN : upsert_item(t, ok)
  \/ \E ok \in BOOLEAN : get_all_lists(t, ok)
  \/ \E ok \in BOOLEAN : delete_list(t, ok)

\* One cycle at a time, and every call of a cycle returns.
SpecLive == Init /\ [][NextSerial]_vars /\ \A t \in Tasks : WF_vars(CycleStep(t))

\* One cycle at a time, calls may fail, and the remote users check the milk and
\* delete lists: a cycle may find every cached list gone from the fetch.
NextSweep ==
  \/ \E by \in Editors : user_checks_item("L1", "i1", by)
  \/ \E l \in ListIds : user_deletes_list(l)
  \/ \E ok \in BOOLEAN : init_get_lists(ok)
  \/ \E p \in Procs : update_user_names(p)
  \/ \E p \in Procs, ok \in BOOLEAN : upsert_list(p, ok)
  \/ \E p \in Procs, ok \in BOOLEAN : upsert_item(p, ok)
  \/ \E t \in Tasks, event \in Events :
       (\A u \in Tasks : pc[u] = "idle") /\ handle_event(t, event)
  \/ \E t \in Tasks, ok \in BOOLEAN : get_lists(t, ok)
  \/ \E t \in Tasks, ok \in BOOLEAN : get_items(t, ok)
  \/ \E t \in Tasks, ok \in BOOLEAN : notify(t, ok)
  \/ \E t \in Tasks, ok \in BOOLEAN : get_all_lists(t, ok)
  \/ \E t \in Tasks, ok \in BOOLEAN : delete_list(t, ok)

SpecSweep == Init /\ [][NextSweep]_vars

\* ------------------------------------------------------------ a start on an existing database

\* The service starts on the database file an earlier run left: the mirror of the
\* lists as they were then.
InitRestart ==
  /\ remote = InitialRemote
  /\ edits = 0
  /\ signals = 0
  /\ dbLists = [l \in ListIds |-> DbListFrom(Lookup(InitialRemote, l))]
  /\ dbItems = [i \in ItemIds |->
                 DbItemFrom(CHOOSE it \in UNION {{ls.items[k] : k \in 1..Len(ls.items)} :
                                                  ls \in {InitialRemote[n] : n \in 1..Len(InitialRemote)}} :
                              it.id = i)]
  /\ user_names = << >>
  /\ filter_own \in BOOLEAN
  /\ pc = [p \in Procs |-> IF p = "main" THEN "init_get_lists" ELSE "idle"]
  /\ lists = [p \in Procs |-> <<>>]
  /\ fetchedVer = [p \in Procs |-> 0]
  /\ callOk = [p \in Procs |-> TRUE]
  /\ idx = [p \in Procs |-> 0]
  /\ changes = [p \in Procs |-> <<>>]
  /\ outcomes = [p \in Procs |-> <<>>]
  /\ itemIdx = [p \in Procs |-> 0]
  /\ sweep = [p \in Procs |-> <<>>]
  /\ listErrs = [p \in Procs |-> {}]
  /\ result = [p \in Procs |-> "none"]
  /\ writtenVer = [l \in ListIds |-> 0]
  /\ call = NoCall
  /\ ret = None

\* The remote users edit while the service is down; from its start on the lists
\* stay as they are, and the cycles run one at a time.
NextRestart ==
  \/ pc["main"] = "init_get_lists" /\ RemoteEdit
  \/ \E ok \in BOOLEAN : init_get_lists(ok)
  \/ \E p \in Procs : update_user_names(p)
  \/ \E p \in Procs, ok \in BOOLEAN : upsert_list(p, ok)
  \/ \E p \in Procs, ok \in BOOLEAN : upsert_item(p, ok)
  \/ \E t \in Tasks, event \in Events :
       (\A u \in Tasks : pc[u] = "idle") /\ handle_event(t, event)
  \/ \E t \in Tasks, ok \in BOOLEAN : get_lists(t, ok)
  \/ \E t \in Tasks, ok \in BOOLEAN : get_items(t, ok)
  \/ \E t \in Tasks, ok \in BOOLEAN : notify(t, ok)
  \/ \E t \in Tasks, ok \in BOOLEAN : get_all_lists(t, ok)
  \/ \E t \in Tasks, ok \in BOOLEAN : delete_list(t, ok)

SpecRestart == InitRestart /\ [][NextRestart]_vars

\* ------------------------------------------------------------ shutdown

\* A main that returns as soon as the shutdown signal arrives.
ctrl_c_exiting ==
  /\ pc["main"] = "running"
  /\ pc' = [pc EXCEPT !["main"] = "stopped"]
  /\ UNCHANGED << remote, edits, signals, dbLists, dbItems, user_names, filter_own, call, ret,
                  lists, fetchedVer, callOk, idx, changes, outcomes, itemIdx, sweep,
                  listErrs, result, writtenVer >>

\* tokio::signal::ctrl_c().await returns (Ok or Err: both arms only log)
ctrl_c ==
  /\ pc["main"] = "running"
  /\ pc' = [pc EXCEPT !["main"] = "disconnecting"]
  /\ UNCHANGED << remote, edits, signals, dbLists, dbItems, user_names, filter_own, call, ret,
                  lists, fetchedVer, callOk, idx, changes, outcomes, itemIdx, sweep,
                  listErrs, result, writtenVer >>

\* sync.disconnect().await ... ?, then main returns: the runtime is dropped with
\* the spawned tasks where they stand, none of them is polled again.
disconnect(ok) ==
  /\ pc["main"] = "disconnecting"
  /\ pc' = [pc EXCEPT !["main"] = "stopped"]
  /\ result' = [result EXCEPT !["main"] =
                  IF ok THEN "ok" ELSE "Failed to disconnect gracefully"]
  /\ callOk' = [callOk EXCEPT !["main"] = ok]
  /\ UNCHANGED << remote, edits, signals, dbLists, dbItems, user_names, filter_own, call, ret,
                  lists, fetchedVer, idx, changes, outcomes, itemIdx, sweep, listErrs,
                  writtenVer >>

\* The service until the process is gone: cycles one at a time, the shutdown
\* signal at any moment after the startup.
NextShutdown ==
  \/ pc["main"] # "stopped" /\ NextSweep
  \/ ctrl_c
  \/ \E ok \in BOOLEAN : disconnect(ok)

SpecShutdown == Init /\ [][NextShutdown]_vars

\* ------------------------------------------------------------ the store, called directly

\* The run in which only the Mirror Store is exercised: main never started.
HandlerOff ==
  /\ remote = InitialRemote
  /\ edits = 0
  /\ signals = 0
  /\ user_names = << >>
  /\ filter_own = FALSE
  /\ pc = [p \in Procs |-> IF p = "main" THEN "exited" ELSE "idle"]
  /\ lists = [p \in Procs |-> <<>>]
  /\ fetchedVer = [p \in Procs |-> 0]
  /\ callOk = [p \in Procs |-> TRUE]
  /\ idx = [p \in Procs |-> 0]
  /\ changes = [p \in Procs |-> <<>>]
  /\ outcomes = [p \in Procs |-> <<>>]
  /\ itemIdx = [p \in Procs |-> 0]
  /\ sweep = [p \in Procs |-> <<>>]
  /\ listErrs = [p \in Procs |-> {}]
  /\ result = [p \in Procs |-> "none"]
  /\ writtenVer = [l \in ListIds |-> 0]

handlerVars ==
  << remote, edits, signals, user_names, filter_own, pc, lists, fetchedVer, callOk,
     idx, changes, outcomes, itemIdx, sweep, listErrs, result, writtenVer >>

\* The two states the List Source may report an item in: as first added, and
\* with every field edited by another user.
ItemVersions(i, l) ==
  { ListItem(i, l, BaseName(i), FALSE, None),
    [ListItem(i, l, AltName(i), TRUE, Some("u2")) EXCEPT
       !.details = "ripe", !.quantity = None, !.category = Some("Dairy")] }

\* The item sequences of a list: no id twice.
ItemSeqs(l) ==
  {<<>>}
  \cup {<<v>> : v \in UNION {ItemVersions(i, l) : i \in ItemIds}}
  \cup {<<v, w>> : v \in ItemVersions("i1", l), w \in ItemVersions("i2", l)}
  \cup {<<w, v>> : v \in ItemVersions("i1", l), w \in ItemVersions("i2", l)}

Snapshots == UNION {{List(l, its) : its \in ItemSeqs(l)} : l \in ListIds}

DbItems == {DbItemFrom(v) : v \in UNION {ItemVersions(i, l) : i \in ItemIds, l \in ListIds}}

RECURSIVE UpsertItemsFrom(_, _, _)
\* sync_list's loop: upsert_item for each item, stopping at the first Err.
UpsertItemsFrom(list_rows, item_rows, items) ==
  IF items = <<>> THEN [items |-> item_rows, ok |-> TRUE]
  ELSE LET db_item == DbItemFrom(Head(items))
       IN IF ForeignKeyOk(list_rows, db_item)
          THEN UpsertItemsFrom(list_rows, UpsertItemRow(item_rows, db_item), Tail(items))
          ELSE [items |-> item_rows, ok |-> FALSE]

\* cache.upsert_list(&db_list)
store_upsert_list(db_list) ==
  /\ dbLists' = UpsertListRow(dbLists, db_list)
  /\ call' = [fn |-> "upsert_list", list |-> db_list]
  /\ ret' = "Ok"
  /\ UNCHANGED << dbItems, handlerVars >>

\* cache.upsert_item(&db_item)
store_upsert_item(db_item) ==
  /\ IF ForeignKeyOk(dbLists, db_item)
     THEN dbItems' = UpsertItemRow(dbItems, db_item) /\ ret' = "Ok"
     ELSE dbItems' = dbItems /\ ret' = "Err"
  /\ call' = [fn |-> "upsert_item", item |-> db_item]
  /\ UNCHANGED << dbLists, handlerVars >>

\* A sync_list that makes the stored list equal to the snapshot: the rows of the
\* list that the snapshot does not hold are deleted.
store_sync_list_replacing(list) ==
  LET list_rows == UpsertListRow(dbLists, DbListFrom(list))
      kept == [i \in {j \in DOMAIN dbItems : dbItems[j].list_id # list.id} |-> dbItems[i]]
      done == UpsertItemsFrom(list_rows, kept, list.items)
  IN /\ dbLists' = list_rows
     /\ dbItems' = done.items
     /\ ret' = IF done.ok THEN "Ok" ELSE "Err"
     /\ call' = [fn |-> "sync_list", list |-> list]
     /\ UNCHANGED handlerVars

\* cache.sync_list(&list), run to its end with no other call in between
store_sync_list(list) ==
  LET list_rows == UpsertListRow(dbLists, DbListFrom(list))
      done == UpsertItemsFrom(list_rows, dbItems, list.items)
  IN /\ dbLists' = list_rows
     /\ dbItems' = done.items
     /\ ret' = IF done.ok THEN "Ok" ELSE "Err"
     /\ call' = [fn |-> "sync_list", list |-> list]
     /\ UNCHANGED handlerVars

\* cache.delete_list(list_id); before: what get_items(list_id) gave just before it
store_delete_list(list_id) ==
  /\ dbLists' = ListsAfterDelete(list_id)
  /\ dbItems' = ItemsAfterDelete(list_id)
  /\ call' = [fn |-> "delete_list", list_id |-> list_id, before |-> ItemRowsOf(list_id)]
  /\ ret' = "Ok"
  /\ UNCHANGED handlerVars

InitStore ==
  /\ HandlerOff
  /\ dbLists = << >>
  /\ dbItems = << >>
  /\ call = NoCall
  /\ ret = None

NextStore ==
  \/ \E l \in ListIds : store_upsert_list(DbListFrom(List(l, <<>>)))
  \/ \E db_item \in DbItems : store_upsert_item(db_item)
  \/ \E list \in Snapshots : store_sync_list(list)
  \/ \E l \in ListIds : store_delete_list(l)

\* Any sequence of store calls, one at a time: every interleaving of the calls
\* the cycles make is one of them.
SpecStore == InitStore /\ [][NextStore]_vars

\* ------------------------------------------------------------ filter_own_changes alone

Attributions == {None} \cup {Some(u) : u \in Editors}

\* One ListChange of every variant for every attribution.
ChangePool ==
  UNION {{ [type |-> "ItemAdded", list_id |-> "L1", list_name |-> ListName("L1"),
            item |-> ItemInfo_from_list_item(ListItem("i1", "L1", "Milk", FALSE, by)),
            user_id |-> by],
           [type |-> "ItemRemoved", list_id |-> "L1", list_name |-> ListName("L1"),
            item_name |-> "Milk", user_id |-> by],
           [type |-> "ItemChecked", list_id |-> "L1", list_name |-> ListName("L1"),
            item_name |-> "Milk", user_id |-> by],
           [type |-> "ItemUnchecked", list_id |-> "L1", list_name |-> ListName("L1"),
            item_name |-> "Milk", user_id |-> by],
           [type |-> "ItemModified", list_id |-> "L1", list_name |-> ListName("L1"),
            item_name |-> "Oat milk",
            changes |-> << [field |-> "Name", old |-> "Milk", new |-> "Oat milk"] >>,
            user_id |-> by] } : by \in Attributions}

ChangeLists == UNION {[1..n -> ChangePool] : n \in 0..MaxChanges}

InitFilter ==
  /\ HandlerOff
  /\ dbLists = << >>
  /\ dbItems = << >>
  /\ \E enabled \in BOOLEAN, detected \in ChangeLists :
       call = [fn |-> "filter_own_changes", enabled |-> enabled,
               changes |-> detected, applied |-> FALSE]
  /\ ret = None

\* process_list_changes, from the detected changes to the changes it notifies.
apply_filter ==
  /\ call.fn = "filter_own_changes"
  /\ ~call.applied
  /\ call' = [call EXCEPT !.applied = TRUE]
  /\ ret' = filter_if_configured(call.enabled, call.changes)
  /\ UNCHANGED << dbLists, dbItems, handlerVars >>

NextFilter == apply_filter

SpecFilter == InitFilter /\ [][NextFilter]_vars

\* ------------------------------------------------------------ a removal, from the write to the report

\* The fetched lists whose items were last edited by nobody, by the
\* authenticated user or by another user.
AttributedSnapshots ==
  UNION {{List(l, << ListItem(i, l, BaseName(i), FALSE, by) >>) :
            i \in ItemIds, by \in Attributions}
         \cup {List(l, << ListItem("i1", l, BaseName("i1"), FALSE, a),
                          ListItem("i2", l, BaseName("i2"), FALSE, b) >>) :
                 a \in Attributions, b \in Attributions} : l \in ListIds}

\* process_list_changes for a list fetched with no item, right after the cycle
\* that wrote `snapshot` for it: the changes it hands to the notifier, then the
\* write of the empty list.
process_removal(snapshot, enabled) ==
  /\ call.fn = "sync_list"
  /\ call.list = snapshot
  /\ ret = "Ok"
  /\ \E cached_items \in Orderings(ItemRowsOf(snapshot.id)) :
       ret' = filter_if_configured(enabled,
                detect_changes(snapshot.id, snapshot.name, cached_items, <<>>))
  /\ dbLists' = UpsertListRow(dbLists, DbListFrom(List(snapshot.id, <<>>)))
  /\ call' = [fn |-> "process_list_changes", snapshot |-> snapshot, enabled |-> enabled]
  /\ UNCHANGED << dbItems, handlerVars >>

NextRemoval ==
  \/ \E list \in AttributedSnapshots : store_sync_list(list)
  \/ \E list \in AttributedSnapshots, enabled \in BOOLEAN : process_removal(list, enabled)

SpecRemoval == InitStore /\ [][NextRemoval]_vars

\* ------------------------------------------------------------ detect_changes alone

\* The values an item may have at the List Source: i1 with every field varying,
\* i2 with its checked flag varying.
LiveItems(i) ==
  IF i = "i1"
  THEN {[id |-> "i1", list_id |-> "L1", name |-> n, details |-> d, quantity |-> q,
         category |-> c, is_checked |-> k, user_id |-> Some("u2")] :
          n \in {BaseName("i1"), AltName("i1")}, d \in {"", "ripe"},
          q \in {None, Some("1"), Some("2")}, c \in {None, Some("Dairy")},
          k \in BOOLEAN}
  ELSE {ListItem("i2", "L1", BaseName("i2"), k, None) : k \in BOOLEAN}

\* The sequences with at most one entry of A and one of B, in either order.
SeqsOver(A, B) ==
  {<<>>} \cup {<<a>> : a \in A} \cup {<<b>> : b \in B}
  \cup {<<a, b>> : a \in A, b \in B} \cup {<<b, a>> : a \in A, b \in B}

LiveItemSeqs == SeqsOver(LiveItems("i1"), LiveItems("i2"))

CachedItemSeqs ==
  SeqsOver({DbItemFrom(v) : v \in LiveItems("i1")}, {DbItemFrom(v) : v \in LiveItems("i2")})

InitDiff ==
  /\ HandlerOff
  /\ dbLists = << >>
  /\ dbItems = << >>
  /\ \E cached_items \in CachedItemSeqs, current_items \in LiveItemSeqs :
       call = [fn |-> "detect_changes", cached_items |-> cached_items,
               current_items |-> current_items, applied |-> FALSE]
  /\ ret = None

\* detect_changes(list_id, list_name, &cached_items, &current_items)
apply_detect_changes ==
  /\ call.fn = "detect_changes"
  /\ ~call.applied
  /\ call' = [call EXCEPT !.applied = TRUE]
  /\ ret' = detect_changes("L1", ListName("L1"), call.cached_items, call.current_items)
  /\ UNCHANGED << dbLists, dbItems, handlerVars >>

NextDiff == apply_detect_changes

SpecDiff == InitDiff /\ [][NextDiff]_vars

\* ------------------------------------------------------------ delete_stale_items and a concurrent writer

\* Unix timestamps, as far as the runs go.
Clock == 0..MaxClock

\* DbItem::new at time now: the row of an item with last_seen: Utc::now().timestamp()
DbItemSeen(item, now) == DbItemFrom(item) @@ [last_seen |-> now]

\* The rows another task may write: either item, in either list, seen at any time.
SeenRows ==
  {DbItemSeen(ListItem(i, l, BaseName(i), FALSE, None), now) :
     i \in ItemIds, l \in ListIds, now \in Clock}

\* ... FROM items WHERE list_id = ? AND last_seen < ?
StaleRowIds(list_id, since) ==
  {i \in DOMAIN dbItems : dbItems[i].list_id = list_id /\ dbItems[i].last_seen < since}

\* upsert_item run by another task while delete_stale_items may be between its
\* statements; call and ret keep following the delete_stale_items invocation.
stale_upsert_item(db_item) ==
  /\ ForeignKeyOk(dbLists, db_item)
  /\ dbItems' = UpsertItemRow(dbItems, db_item)
  /\ UNCHANGED << dbLists, call, ret, handlerVars >>

\* delete_stale_items, its first statement: the SELECT into stale_items
delete_stale_items_select(list_id, since) ==
  /\ call.fn = "delete_stale_items" => call.phase = "done"
  /\ call' = [fn |-> "delete_stale_items", list_id |-> list_id, since |-> since,
              phase |-> "selected",
              stale_items |-> {dbItems[i] : i \in StaleRowIds(list_id, since)}]
  /\ ret' = None
  /\ UNCHANGED << dbLists, dbItems, handlerVars >>

\* delete_stale_items, from `if !stale_items.is_empty()` to Ok(stale_items)
delete_stale_items_delete ==
  /\ call.fn = "delete_stale_items"
  /\ call.phase = "selected"
  /\ dbItems' = IF call.stale_items # {}
                THEN [i \in DOMAIN dbItems \ StaleRowIds(call.list_id, call.since) |-> dbItems[i]]
                ELSE dbItems
  /\ call' = [call EXCEPT !.phase = "done"]
  /\ ret' = call.stale_items
  /\ UNCHANGED << dbLists, handlerVars >>

\* Both list rows are stored; no item yet.
InitStale ==
  /\ HandlerOff
  /\ dbLists = [l \in ListIds |-> DbListFrom(List(l, <<>>))]
  /\ dbItems = << >>
  /\ call = NoCall
  /\ ret = None

NextStale ==
  \/ \E db_item \in SeenRows : stale_upsert_item(db_item)
  \/ \E l \in ListIds, since \in Clock : delete_stale_items_select(l, since)
  \/ delete_stale_items_delete

SpecStale == InitStale /\ [][NextStale]_vars

\* ------------------------------------------------------------ notify/ntfy.rs: parse_tags alone

\* A string is the sequence of its characters: a letter, another, a blank, a comma.
TagChars == {"a", "b", " ", ","}

TagStrings == UNION {[1..n -> TagChars] : n \in 0..MaxTagLen}

RECURSIVE split(_, _)
\* str::split(sep): the pieces between the separators; the empty string gives one
\* empty piece.
split(str, sep) ==
  IF \A k \in 1..Len(str) : str[k] # sep THEN << str >>
  ELSE LET k == CHOOSE j \in 1..Len(str) :
                  str[j] = sep /\ \A h \in 1..(j - 1) : str[h] # sep
       IN << SubSeq(str, 1, k - 1) >> \o split(SubSeq(str, k + 1, Len(str)), sep)

RECURSIVE trim(_)
\* str::trim(): leading and trailing whitespace removed
trim(str) ==
  IF str = <<>> THEN str
  ELSE IF Head(str) = " " THEN trim(Tail(str))
  ELSE IF str[Len(str)] = " " THEN trim(SubSeq(str, 1, Len(str) - 1))
  ELSE str

\* A parse that keeps the empty segments.
parse_tags_keeping_empty(tags) ==
  LET pieces == split(tags, ",")
  IN [k \in 1..Len(pieces) |-> trim(pieces[k])]

\* tags.split(',').map(|s| s.trim().to_string()).filter(|s| !s.is_empty()).collect()
parse_tags(tags) ==
  LET pieces == split(tags, ",")
      is_not_empty(piece) == piece # <<>>
  IN SelectSeq([k \in 1..Len(pieces) |-> trim(pieces[k])], is_not_empty)

InitTags ==
  /\ HandlerOff
  /\ dbLists = << >>
  /\ dbItems = << >>
  /\ \E tags \in TagStrings : call = [fn |-> "parse_tags", tags |-> tags, applied |-> FALSE]
  /\ ret = None

\* parse_tags(tags)
apply_parse_tags ==
  /\ call.fn = "parse_tags"
  /\ ~call.applied
  /\ call' = [call EXCEPT !.applied = TRUE]
  /\ ret' = parse_tags(call.tags)
  /\ UNCHANGED << dbLists, dbItems, handlerVars >>

NextTags == apply_parse_tags

SpecTags == InitTags /\ [][NextTags]_vars

\* ------------------------------------------------------------ the claims

FetchedIds(t) == {lists[t][k].id : k \in 1..Len(lists[t])}

InSyncList(t) == pc[t] \in {"upsert_list", "upsert_item"}

InSweep(t) == pc[t] \in {"get_all_lists", "delete_list"}

\* The task leaves the list it is at: process_list_changes returns.
LeavesList(t) == idx[t] >= 1 /\ idx'[t] = idx[t] + 1

\* handle_event returns: the cycle is over.
Completes(t) == InFlight(t) /\ pc'[t] = "idle"

\* C1: at most one reconciliation cycle is in flight at any time.
C1_OneCycleInFlight == Cardinality({t \in Tasks : InFlight(t)}) <= 1

\* C2: a change is handed to the Notification Sink at most once: no two cycles
\* in flight have both delivered the same event for the same live snapshot of a list.
C2_ChangeDispatchedOnce ==
  \A t \in Tasks, u \in Tasks :
    (/\ t # u
     /\ pc[t] \in {"notify", "upsert_list", "upsert_item"}
     /\ pc[u] \in {"notify", "upsert_list", "upsert_item"}
     /\ CurrentList(t) = CurrentList(u))
    => ~ \E i \in 1..Len(outcomes[t]), j \in 1..Len(outcomes[u]) :
           /\ outcomes[t][i]
           /\ outcomes[u][j]
           /\ changes[t][i] = changes[u][j]

\* C3: over non-overlapping, failure-free cycles a change is reported once: a cycle
\* that fetched the remote version the mirror's copy of a list was last written
\* from (the remote did not change in between) has no event to dispatch for it.
C3_ReportedOnce ==
  \A t \in Tasks :
    (pc[t] = "notify" /\ CurrentList(t).id \in DOMAIN dbLists)
    => writtenVer[CurrentList(t).id] # fetchedVer[t]

\* C4: after a cycle without storage failure, get_items(list) is exactly the item
\* set of the fetched snapshot, for every fetched list.
C4_MirrorIsSnapshot ==
  [][\A t \in Tasks :
       (Completes(t) /\ result'[t] = "ok")
       => \A k \in 1..Len(lists[t]) :
            {dbItems'[i] : i \in {j \in DOMAIN dbItems' :
                                    dbItems'[j].list_id = lists[t][k].id}}
            = {DbItemFrom(lists[t][k].items[n]) : n \in 1..Len(lists[t][k].items)}]_vars

\* C5: a cycle that fetched an older remote state never overwrites a list written
\* by a cycle that fetched a newer one.
C5_NewerNotOverwritten ==
  [][\A l \in DOMAIN dbLists \cap DOMAIN dbLists' : writtenVer'[l] >= writtenVer[l]]_vars

\* C6: a failed fetch aborts the whole cycle: the task is back to idle with the
\* error returned, the mirror and the user directory are as they were, nothing
\* was handed to the sink, and a task is free for the next signal.
C6_FetchFailureAborts ==
  /\ [][\A t \in Tasks :
          (pc[t] = "get_lists" /\ pc'[t] # "get_lists" /\ ~callOk'[t])
          => /\ pc'[t] = "idle"
             /\ result'[t] = "Failed to fetch updated lists"
             /\ UNCHANGED << dbLists, dbItems, user_names, outcomes >>]_vars
  /\ [](\A t \in Tasks :
         (/\ pc[t] = "idle"
          /\ result[t] = "Failed to fetch updated lists"
          /\ signals < MaxSignals
          /\ \A u \in Tasks : ~InFlight(u))
         => ENABLED (\E u \in Tasks : handle_event(u, "ShoppingListsChanged")))

\* The witness of C6: a cycle ended on a failed fetch, with the mirror seeded.
C6_Witness ==
  \E t \in Tasks :
    /\ pc[t] = "idle"
    /\ result[t] = "Failed to fetch updated lists"
    /\ ~callOk[t]
    /\ dbItems # << >>

\* C7: within one list, a failed dispatch prevents neither the remaining dispatches
\* nor the sync_list write: sync_list runs with every change handed to the sink,
\* and a list that had changes is left only from within sync_list.
C7_DispatchFailureIsolated ==
  /\ [](\A t \in Tasks : InSyncList(t) => Len(outcomes[t]) = Len(changes[t]))
  /\ [][\A t \in Tasks :
          (LeavesList(t) /\ changes[t] # <<>>) => InSyncList(t)]_vars

\* The witness of C7: the first dispatch failed, the second was delivered and
\* sync_list has written the list row.
C7_Witness ==
  \E t \in Tasks :
    /\ pc[t] = "upsert_item"
    /\ Len(outcomes[t]) = 2
    /\ ~outcomes[t][1]
    /\ outcomes[t][2]
    /\ dbLists[CurrentList(t).id] = DbListFrom(CurrentList(t))

\* C8: a failure while processing one list does not abort the cycle: the sweep
\* starts only when the loop has visited every fetched list, and a cycle ends only
\* on its fetch or in its sweep.
C8_ListFailureIsolated ==
  /\ [](\A t \in Tasks : InSweep(t) => idx[t] = Len(lists[t]) + 1)
  /\ [][\A t \in Tasks :
          Completes(t) => (pc[t] = "get_lists" \/ InSweep(t))]_vars

\* The witness of C8: the first of two lists failed, the second was reconciled
\* and the sweep runs.
C8_Witness ==
  \E t \in Tasks :
    /\ InSweep(t)
    /\ Len(lists[t]) = 2
    /\ listErrs[t] = {lists[t][1].id}
    /\ dbLists[lists[t][2].id] = DbListFrom(lists[t][2])

\* C9 as stated: every per-list reconciliation calls sync_list, whether or not the
\* read of the cached items or the notifying succeeded.
C9_SyncListAlwaysCalled ==
  [][\A t \in Tasks : LeavesList(t) => InSyncList(t)]_vars

\* C9 amended: every per-list reconciliation whose read of the cached items
\* succeeded calls sync_list with the fetched snapshot, whether or not notifying
\* succeeded; when that read fails the list is left without a sync_list call.
C9_SyncListCalledAfterRead ==
  /\ [][\A t \in Tasks :
          LeavesList(t) => (InSyncList(t) \/ (pc[t] = "get_items" /\ ~callOk'[t]))]_vars
  /\ [][\A t \in Tasks :
          (pc[t] = "upsert_list" /\ pc'[t] # "upsert_list" /\ callOk'[t])
          => dbLists'[CurrentList(t).id] = DbListFrom(CurrentList(t))]_vars
  /\ [][\A t \in Tasks :
          (pc[t] = "get_items" /\ pc'[t] # "get_items" /\ callOk'[t])
          => (idx'[t] = idx[t] /\ pc'[t] \in {"notify", "upsert_list"})]_vars

\* The witness of C9: every dispatch of the list failed and sync_list is writing
\* the snapshot.
C9_Witness ==
  \E t \in Tasks :
    /\ pc[t] = "upsert_item"
    /\ outcomes[t] # <<>>
    /\ \A k \in 1..Len(outcomes[t]) : ~outcomes[t][k]

C11_ItemsBelongToStoredList ==
  /\ [](\A i \in DOMAIN dbItems : dbItems[i].id = i /\ dbItems[i].list_id \in DOMAIN dbLists)
  /\ [][call'.fn = "delete_list" /\ call' # call
        => /\ call'.list_id \notin DOMAIN dbLists'
           /\ \A i \in DOMAIN dbItems' : dbItems'[i].list_id # call'.list_id]_vars

\* The witness of C11: delete_list has just removed a list that held an item,
\* and the other list keeps its own.
C11_Witness ==
  /\ call.fn = "delete_list"
  /\ call.before # {}
  /\ dbItems # << >>

\* Whether filter_own_changes has been applied to the changes of call.
Filtered == call.fn = "filter_own_changes" /\ call.applied

\* C12: with filtering enabled exactly the events whose attributing user is the
\* authenticated user are dropped, in place; an event with no attributing user
\* is kept whatever the setting; with filtering disabled nothing is dropped.
C12_SelfFiltering ==
  Filtered =>
    /\ ret = SelectSeq(call.changes,
                       LAMBDA e : ~(call.enabled /\ e.user_id = Some(Me)))
    /\ \A k \in 1..Len(call.changes) :
         call.changes[k].user_id = None => \E j \in 1..Len(ret) : ret[j] = call.changes[k]
    /\ ~call.enabled => ret = call.changes

\* The witness of C12: filtering is enabled, the user's own event was dropped and
\* the event nobody is named for was kept.
C12_Witness ==
  /\ Filtered
  /\ call.enabled
  /\ Len(call.changes) = 2
  /\ call.changes[1].user_id = Some(Me)
  /\ call.changes[2].user_id = None
  /\ ret = << call.changes[2] >>

\* Whether detect_changes has been applied to the item sequences of call.
Diffed == call.fn = "detect_changes" /\ call.applied

InCached(i) == HasId(call.cached_items, i)
InLive(i) == HasId(call.current_items, i)
CachedOf(i) == Lookup(call.cached_items, i)
LiveOf(i) == Lookup(call.current_items, i)

\* The events of ret that are about item i: ItemAdded carries the id, the other
\* variants the item's name, and no two ids share a name.
EventsFor(i) ==
  {k \in 1..Len(ret) :
     IF ret[k].type = "ItemAdded" THEN ret[k].item.id = i
     ELSE ret[k].item_name \in {BaseName(i), AltName(i)}}

EventsOfType(i, types) == {k \in EventsFor(i) : ret[k].type \in types}

SameFields(cached, current) ==
  /\ cached.name = current.name
  /\ cached.details = current.details
  /\ cached.quantity = current.quantity
  /\ cached.category = current.category

FieldRank(f) ==
  CASE f = "Name" -> 1 [] f = "Details" -> 2 [] f = "Quantity" -> 3 [] f = "Category" -> 4

FieldOf(item, f) ==
  CASE f = "Name" -> item.name [] f = "Details" -> item.details
    [] f = "Quantity" -> item.quantity [] f = "Category" -> item.category

\* C13: diffing an item set against itself (same ids, equal name, details,
\* quantity, category and checked flag) yields no event, whatever the two orders.
C13_DiffOfSameIsEmpty ==
  (/\ Diffed
   /\ \A i \in ItemIds : InCached(i) <=> InLive(i)
   /\ \A i \in ItemIds :
        InLive(i) => /\ SameFields(CachedOf(i), LiveOf(i))
                     /\ CachedOf(i).is_checked = LiveOf(i).is_checked)
  => ret = <<>>

\* The witness of C13: two equal item sets of two items, held in opposite orders.
C13_Witness ==
  /\ Diffed
  /\ Len(call.cached_items) = 2
  /\ Len(call.current_items) = 2
  /\ call.cached_items[1] = DbItemFrom(call.current_items[2])
  /\ call.cached_items[2] = DbItemFrom(call.current_items[1])
  /\ call.current_items[1].quantity = None
  /\ ret = <<>>

\* C14: an id that is live and not cached gets exactly one ItemAdded, carrying the
\* live item, and no ItemChecked, ItemUnchecked or ItemModified; with nothing
\* cached the result is one ItemAdded per live item and nothing else.
C14_AddedOnce ==
  Diffed =>
    /\ \A i \in ItemIds :
         (InLive(i) /\ ~InCached(i))
         => /\ Cardinality(EventsOfType(i, {"ItemAdded"})) = 1
            /\ \A k \in EventsOfType(i, {"ItemAdded"}) :
                 ret[k].item = ItemInfo_from_list_item(LiveOf(i))
            /\ EventsOfType(i, {"ItemChecked", "ItemUnchecked", "ItemModified"}) = {}
    /\ call.cached_items = <<>>
       => /\ Len(ret) = Len(call.current_items)
          /\ \A k \in 1..Len(ret) : ret[k].type = "ItemAdded"

\* The witness of C14: nothing cached, two live items, two events.
C14_Witness ==
  /\ Diffed
  /\ call.cached_items = <<>>
  /\ Len(call.current_items) = 2
  /\ call.current_items[1].is_checked
  /\ Len(ret) = 2

\* C15: an id that is cached and not live gets exactly one ItemRemoved, and it
\* carries the cached item's name.
C15_RemovedOnce ==
  Diffed =>
    \A i \in ItemIds :
      (InCached(i) /\ ~InLive(i))
      => /\ Cardinality({k \in 1..Len(ret) : ret[k].type = "ItemRemoved"
                                              /\ ret[k].item_name = CachedOf(i).name}) = 1
         /\ Cardinality(EventsOfType(i, {"ItemRemoved"})) = 1

\* The witness of C15: the renamed i1 is cached and gone from the live list, which
\* still holds i2.
C15_Witness ==
  /\ Diffed
  /\ InCached("i1")
  /\ ~InLive("i1")
  /\ InLive("i2")
  /\ InCached("i2")
  /\ CachedOf("i1").name = AltName("i1")
  /\ \E k \in 1..Len(ret) : ret[k].type = "ItemRemoved" /\ ret[k].item_name = AltName("i1")

\* C16: an id in both sets whose checked flag differs and whose other fields are
\* equal gets exactly one event: ItemChecked if the live flag is true,
\* ItemUnchecked if it is false; no ItemModified.
C16_CheckedTransition ==
  Diffed =>
    \A i \in ItemIds :
      (/\ InCached(i) /\ InLive(i)
       /\ CachedOf(i).is_checked # LiveOf(i).is_checked
       /\ SameFields(CachedOf(i), LiveOf(i)))
      => /\ Cardinality(EventsFor(i)) = 1
         /\ \A k \in EventsFor(i) :
              ret[k].type = IF LiveOf(i).is_checked THEN "ItemChecked" ELSE "ItemUnchecked"

\* The witness of C16: i1 went from checked to unchecked with its fields as cached.
C16_Witness ==
  /\ Diffed
  /\ InCached("i1") /\ InLive("i1")
  /\ CachedOf("i1").is_checked
  /\ ~LiveOf("i1").is_checked
  /\ SameFields(CachedOf("i1"), LiveOf("i1"))
  /\ \E k \in 1..Len(ret) : ret[k].type = "ItemUnchecked"

\* C17: an id in both sets with the checked flag unchanged and a field among name,
\* details, quantity, category differing gets exactly one event, an ItemModified
\* whose changes are exactly the differing fields, each with the cached value as
\* old and the live value as new, in the order name, details, quantity, category.
C17_ModifiedFields ==
  Diffed =>
    \A i \in ItemIds :
      (/\ InCached(i) /\ InLive(i)
       /\ CachedOf(i).is_checked = LiveOf(i).is_checked
       /\ ~SameFields(CachedOf(i), LiveOf(i)))
      => /\ Cardinality(EventsFor(i)) = 1
         /\ \A k \in EventsFor(i) :
              /\ ret[k].type = "ItemModified"
              /\ \A f \in {"Name", "Details", "Quantity", "Category"} :
                   (\E j \in 1..Len(ret[k].changes) : ret[k].changes[j].field = f)
                   <=> FieldOf(CachedOf(i), f) # FieldOf(LiveOf(i), f)
              /\ \A j \in 1..Len(ret[k].changes) :
                   /\ ret[k].changes[j].old = FieldOf(CachedOf(i), ret[k].changes[j].field)
                   /\ ret[k].changes[j].new = FieldOf(LiveOf(i), ret[k].changes[j].field)
              /\ \A j1, j2 \in 1..Len(ret[k].changes) :
                   j1 < j2 => FieldRank(ret[k].changes[j1].field)
                              < FieldRank(ret[k].changes[j2].field)

\* The witness of C17: all four fields of i1 differ, the quantity from unset to set
\* and the category from set to unset, and the flag is unchanged.
C17_Witness ==
  /\ Diffed
  /\ InCached("i1") /\ InLive("i1")
  /\ CachedOf("i1").is_checked = LiveOf("i1").is_checked
  /\ CachedOf("i1").quantity = None
  /\ LiveOf("i1").category = None
  /\ \E k \in 1..Len(ret) : ret[k].type = "ItemModified" /\ Len(ret[k].changes) = 4

\* C18: an id in both sets whose checked flag differs and a field among name,
\* details, quantity, category differs gets exactly two events: one ItemChecked
\* or ItemUnchecked and one ItemModified, which has no entry for the flag.
C18_CheckedAndModified ==
  Diffed =>
    \A i \in ItemIds :
      (/\ InCached(i) /\ InLive(i)
       /\ CachedOf(i).is_checked # LiveOf(i).is_checked
       /\ ~SameFields(CachedOf(i), LiveOf(i)))
      => /\ Cardinality(EventsFor(i)) = 2
         /\ Cardinality(EventsOfType(i, {IF LiveOf(i).is_checked
                                         THEN "ItemChecked" ELSE "ItemUnchecked"})) = 1
         /\ Cardinality(EventsOfType(i, {"ItemModified"})) = 1
         /\ \A k \in EventsOfType(i, {"ItemModified"}) :
              \A j \in 1..Len(ret[k].changes) :
                ret[k].changes[j].field \in {"Name", "Details", "Quantity", "Category"}

\* The witness of C18: i1 was checked and renamed; the ItemChecked comes first.
C18_Witness ==
  /\ Diffed
  /\ InCached("i1") /\ InLive("i1")
  /\ ~CachedOf("i1").is_checked
  /\ LiveOf("i1").is_checked
  /\ CachedOf("i1").name # LiveOf("i1").name
  /\ Len(ret) = 2
  /\ ret[1].type = "ItemChecked"
  /\ ret[2].type = "ItemModified"

\* C19: sync_list replaces an item by id with last-write-wins on every field: each
\* snapshot item read back from the store has the name, details, quantity,
\* category, checked flag and attributing user of the item just written.
C19_UpsertOverwritesEveryField ==
  (call.fn = "sync_list" /\ ret = "Ok")
  => \A k \in 1..Len(call.list.items) :
       LET item == call.list.items[k]
       IN /\ item.id \in DOMAIN dbItems
          /\ dbItems[item.id].list_id = item.list_id
          /\ SameFields(dbItems[item.id], item)
          /\ dbItems[item.id].is_checked = item.is_checked
          /\ DbItemUserId(dbItems[item.id]) = item.user_id

\* Whether main is past a successful startup run.
Started == pc["main"] = "running"

\* C20: the startup run completes before any signal is handled: a task is in
\* flight, or has handled an event, only after initialize_cache returned Ok, and
\* once the startup run has failed main is over and no event is ever handled.
C20_StartupBeforeSignals ==
  /\ [](\A t \in Tasks :
          (InFlight(t) \/ result[t] # "none") => (Started /\ result["main"] = "ok"))
  /\ [](~Started => signals = 0)
  /\ [][pc["main"] = "exited" => pc'["main"] = "exited"]_vars
  /\ [][(~Started /\ (dbLists' # dbLists \/ dbItems' # dbItems))
        => pc["main"] \in {"upsert_list", "upsert_item"}]_vars

\* The witness of C20: a signal-driven cycle reads the mirror the startup run seeded.
C20_Witness ==
  /\ Started
  /\ result["main"] = "ok"
  /\ DOMAIN dbLists = ListIds
  /\ \E t \in Tasks : pc[t] = "get_items"

\* C21: the user directory only grows: a user id once in the directory stays in it
\* over every step of every cycle, also when a later fetch no longer lists the
\* user and when a fetch fails; its display name may change.
C21_UserDirectoryGrows ==
  [][\A u \in DOMAIN user_names : u \in DOMAIN user_names']_vars

\* The witness of C21: a cycle has updated the directory from a fetch without the
\* list u3 shares; u3 is still known and u2 has the name the remaining list gives.
C21_Witness ==
  \E t \in Tasks :
    /\ pc[t] = "get_items"
    /\ \A k \in 1..Len(lists[t]) :
         \A j \in 1..Len(lists[t][k].shared_users) :
           lists[t][k].shared_users[j].user_id # "u3"
    /\ "u3" \in DOMAIN user_names
    /\ user_names["u2"] = "bob@x"

\* C22: delete_stale_items(list_id, since) removes exactly the rows it returns, also
\* when another task upserts items between its SELECT and its DELETE: at the step
\* that ends the call, the rows gone from the table are the rows returned, and
\* no returned row is still in the table.
C22_StaleDeleteReturnsRemoved ==
  [][(call.fn = "delete_stale_items" /\ call.phase = "selected" /\ call' # call)
       => LET gone == DOMAIN dbItems \ DOMAIN dbItems'
          IN /\ ret' = {dbItems[i] : i \in gone}
             /\ \A r \in ret' : r.id \notin DOMAIN dbItems']_vars

\* C23: only the "lists changed" signal starts a cycle: a task leaves idle only on a
\* step that counts such a signal, and a task that handles another event returns
\* Ok at once, with no fetch, no dispatch and the store and the user directory
\* unchanged.
C23_OnlyListsChangedStartsCycle ==
  [][\A t \in Tasks :
       /\ (pc[t] = "idle" /\ pc'[t] # "idle")
            => (signals' = signals + 1 /\ pc'[t] = "get_lists")
       /\ (pc[t] = "idle" /\ pc'[t] = "idle" /\ result'[t] # result[t])
            => /\ result'[t] = "ok"
               /\ UNCHANGED << dbLists, dbItems, user_names, signals, lists, fetchedVer,
                               changes, outcomes, call, ret, remote, pc >>]_vars

\* The witness of C23: after the startup run filled the store, a heartbeat was
\* handled with success and no cycle has started.
C23_Witness ==
  /\ Started
  /\ signals = 0
  /\ dbItems # << >>
  /\ \A t \in Tasks : pc[t] = "idle"
  /\ \E t \in Tasks : result[t] = "ok"

\* The ids of the items of a snapshot.
SnapshotIds(list) == {list.items[k].id : k \in 1..Len(list.items)}

\* C24, as stated: sync_list changes nothing but the list row and the rows of the
\* snapshot's items in that list: the rows of the list that the snapshot does not
\* hold and all rows of other lists are as before.
C24_SyncListFrameAsStated ==
  [][call'.fn = "sync_list"
       => /\ \A i \in DOMAIN dbItems :
               (dbItems[i].list_id # call'.list.id \/ i \notin SnapshotIds(call'.list))
                 => (i \in DOMAIN dbItems' /\ dbItems'[i] = dbItems[i])
          /\ \A l \in DOMAIN dbLists \ {call'.list.id} :
               l \in DOMAIN dbLists' /\ dbLists'[l] = dbLists[l]]_vars

\* C24, amended: sync_list writes the list row and the row of every snapshot item
\* and changes nothing else: every item row whose id is not the id of a snapshot
\* item, of this list or of another, and every other list row is as before, and
\* no other row appears. A row with the id of a snapshot item is replaced by that
\* item, whichever list it belonged to.
C24_SyncListFrame ==
  [][call'.fn = "sync_list"
       => /\ \A i \in DOMAIN dbItems \ SnapshotIds(call'.list) :
               i \in DOMAIN dbItems' /\ dbItems'[i] = dbItems[i]
          /\ DOMAIN dbItems' = DOMAIN dbItems \cup SnapshotIds(call'.list)
          /\ \A l \in DOMAIN dbLists \ {call'.list.id} :
               l \in DOMAIN dbLists' /\ dbLists'[l] = dbLists[l]
          /\ DOMAIN dbLists' = DOMAIN dbLists \cup {call'.list.id}
          /\ ret' = "Ok"
               => /\ dbLists'[call'.list.id] = DbListFrom(call'.list)
                  /\ \A k \in 1..Len(call'.list.items) :
                       dbItems'[call'.list.items[k].id] = DbItemFrom(call'.list.items[k])]_vars

\* The witness of C24: sync_list has written a snapshot with an item while the
\* store holds another item of the same list that the snapshot does not hold,
\* and the row of another list.
C24_Witness ==
  /\ call.fn = "sync_list"
  /\ ret = "Ok"
  /\ call.list.items # <<>>
  /\ \E i \in DOMAIN dbItems :
       dbItems[i].list_id = call.list.id /\ i \notin SnapshotIds(call.list)
  /\ DOMAIN dbLists = ListIds

\* C25: parse_tags yields, in order, the segments between the commas with the
\* blanks around them removed, and leaves out the segments that hold nothing but
\* blanks; the empty string yields the empty sequence. A segment is told by the
\* position before it (0 or a comma); its tag runs from its first to its last
\* character that is not a blank.
C25_ParseTags ==
  (call.fn = "parse_tags" /\ call.applied)
    => LET tags == call.tags
           n == Len(tags)
           starts == {0} \cup {k \in 1..n : tags[k] = ","}
           end(a) == CHOOSE b \in (a + 1)..(n + 1) :
                       /\ b = n + 1 \/ tags[b] = ","
                       /\ \A h \in (a + 1)..(b - 1) : tags[h] # ","
           inked(a) == {h \in (a + 1)..(end(a) - 1) : tags[h] # " "}
           kept == {a \in starts : inked(a) # {}}
           first(a) == CHOOSE h \in inked(a) : \A g \in inked(a) : h <= g
           last(a) == CHOOSE h \in inked(a) : \A g \in inked(a) : g <= h
           nth(k) == CHOOSE a \in kept : Cardinality({c \in kept : c < a}) = k - 1
       IN /\ Len(ret) = Cardinality(kept)
          /\ \A k \in 1..Len(ret) : ret[k] = SubSeq(tags, first(nth(k)), last(nth(k)))
          /\ tags = <<>> => ret = <<>>

\* The witness of C25: " a,,b" was parsed to the tags "a" and "b": a blank was
\* trimmed and an empty segment dropped.
C25_Witness ==
  /\ call.fn = "parse_tags"
  /\ call.applied
  /\ call.tags = << " ", "a", ",", ",", "b" >>
  /\ ret = << << "a" >>, << "b" >> >>

\* C26: the steps of a cycle are ordered. The user directory is written only by the
\* update that follows the fetch, before any list is begun, and from then on it
\* holds every shared user of the fetched lists; a list's dispatch attempts are
\* all made, from the list's diff on, before its list row or an item row is
\* written; the sweep is entered only when the loop is past the last fetched
\* list, failed lists included.
C26_CycleStepOrder ==
  /\ [](\A t \in Tasks :
          /\ pc[t] = "update_user_names" => (idx[t] = 0 /\ listErrs[t] = {})
          /\ pc[t] \in {"get_items", "notify", "upsert_list", "upsert_item",
                        "get_all_lists", "delete_list"}
               => \A k \in 1..Len(lists[t]) :
                    \A j \in 1..Len(lists[t][k].shared_users) :
                      lists[t][k].shared_users[j].user_id \in DOMAIN user_names
          /\ InSyncList(t) => Len(outcomes[t]) = Len(changes[t])
          /\ InSweep(t) => idx[t] = Len(lists[t]) + 1)
  /\ [][\A t \in Tasks :
          /\ (pc'[t] = "update_user_names" /\ pc[t] # pc'[t]) => pc[t] = "get_lists"
          /\ (pc[t] = "update_user_names" /\ pc'[t] # pc[t])
               => pc'[t] = IF lists[t] = <<>> THEN "get_all_lists" ELSE "get_items"
          /\ (pc'[t] = "notify" /\ pc[t] # "notify") => pc[t] = "get_items"
          /\ (pc[t] = "notify" /\ pc'[t] # "notify")
               => (pc'[t] = "upsert_list" /\ Len(outcomes'[t]) = Len(changes[t]))
          /\ (InSyncList(t) /\ ~InSyncList(t)') => LeavesList(t)
          /\ (InSweep(t)' /\ ~InSweep(t))
               => /\ idx[t] = Len(lists[t]) \/ pc[t] = "update_user_names"
                  /\ pc'[t] = "get_all_lists"]_vars
  /\ [][(\A p \in Procs : pc[p] # "update_user_names") => user_names' = user_names]_vars
  /\ [][(\A p \in Procs : pc[p] \notin {"upsert_list", "upsert_item", "delete_list"})
          => (dbLists' = dbLists /\ dbItems' = dbItems)]_vars

\* The witness of C26: a cycle is in its sweep, about to delete a list, after one
\* of its fetched lists failed.
C26_Witness ==
  \E t \in Tasks :
    /\ pc[t] = "delete_list"
    /\ listErrs[t] # {}
    /\ Len(lists[t]) >= 1

\* C27: a cycle's diff is never computed against a mirror that holds a newer fetch
\* than its own, nor while another cycle in flight is working on the same list
\* from a different fetch: whenever a task has events to dispatch for a list, the
\* mirror's copy of the list was written from a remote state no newer than the
\* task's fetch, and every other task at that list fetched the same state.
C27_DiffAgainstSettledMirror ==
  \A t \in Tasks :
    pc[t] = "notify"
    => /\ writtenVer[CurrentList(t).id] <= fetchedVer[t]
       /\ \A u \in Tasks \ {t} :
            (/\ pc[u] \in {"notify", "upsert_list", "upsert_item"}
             /\ CurrentList(u).id = CurrentList(t).id)
            => fetchedVer[u] = fetchedVer[t]

\* C28: a storage failure while the sweep deletes one cached-only list aborts only
\* that list: when the cycle ends in the sweep, every other list the sweep still
\* had to delete is gone from the mirror.
C28_SweepFailureIsolated ==
  [][\A t \in Tasks :
       (pc[t] = "delete_list" /\ pc'[t] = "idle")
       => \A k \in 2..Len(sweep[t]) : sweep[t][k] \notin DOMAIN dbLists']_vars

\* C29: within a category the events keep the order of the input: of two ItemAdded
\* events the earlier is for the item that comes earlier among the live items, of
\* two ItemRemoved events the earlier is for the item that comes earlier among the
\* cached items, and of two events of the checked, unchecked and modified kinds
\* the earlier is for the item that comes earlier (or the same item) among the
\* live items.
C29_DiffOrderStable ==
  Diffed
  => LET pos(items, i) == CHOOSE k \in 1..Len(items) : items[k].id = i
         changed == {"ItemChecked", "ItemUnchecked", "ItemModified"}
     IN \A i \in ItemIds, j \in ItemIds :
          \A k1 \in EventsFor(i), k2 \in EventsFor(j) :
            k1 < k2
            => /\ (ret[k1].type = "ItemAdded" /\ ret[k2].type = "ItemAdded")
                    => pos(call.current_items, i) < pos(call.current_items, j)
               /\ (ret[k1].type = "ItemRemoved" /\ ret[k2].type = "ItemRemoved")
                    => pos(call.cached_items, i) < pos(call.cached_items, j)
               /\ (ret[k1].type \in changed /\ ret[k2].type \in changed)
                    => pos(call.current_items, i) <= pos(call.current_items, j)

\* The witness of C29: the nails and the milk were both added, the nails first
\* among the live items, and the diff reports the nails first.
C29_Witness ==
  /\ Diffed
  /\ call.cached_items = <<>>
  /\ Len(call.current_items) = 2
  /\ call.current_items[1].id = "i2"
  /\ Len(ret) = 2
  /\ ret[1].type = "ItemAdded" /\ ret[1].item.id = "i2"
  /\ ret[2].type = "ItemAdded" /\ ret[2].item.id = "i1"

\* main returns: the process exits.
Exits == pc["main"] # "stopped" /\ pc'["main"] = "stopped"

\* The task has handed an event to the sink for the list it is at and has not
\* finished writing that list to the mirror.
BetweenDispatchAndWrite(t) ==
  /\ pc[t] \in {"notify", "upsert_list", "upsert_item"}
  /\ \E k \in 1..Len(outcomes[t]) : outcomes[t][k]

\* C30, as stated: the process exits only when the disconnect has returned, and at
\* the exit no cycle stands between a dispatch and the cache write of its list.
C30_ShutdownCutsNoCycle ==
  [][Exits => /\ pc["main"] = "disconnecting"
              /\ \A t \in Tasks : ~BetweenDispatchAndWrite(t)]_vars

\* C30, amended: the process exits only when the disconnect has returned, with Ok
\* or with Err; the cycles in flight are not waited for: at the exit they are
\* dropped where they stand, and nothing is dispatched or written afterwards.
C30_ShutdownAfterDisconnect ==
  /\ [][Exits => /\ pc["main"] = "disconnecting"
                 /\ UNCHANGED << dbLists, dbItems, outcomes, user_names >>
                 /\ \A t \in Tasks : pc'[t] = pc[t]]_vars
  /\ [][pc["main"] = "stopped" => UNCHANGED vars]_vars

\* The witness of C30: the process is gone and a cycle that had dispatched an
\* event stands before the write of its list.
C30_Witness ==
  /\ pc["main"] = "stopped"
  /\ \E t \in Tasks : pc[t] = "upsert_list" /\ BetweenDispatchAndWrite(t)

\* C31: a started cycle returns to idle when each of its calls returns, and it makes
\* no call twice: every step of a cycle moves it forward in the order fetch, user
\* directory, then per fetched list the read, one dispatch per event, the list
\* row and one write per item, then the read of the cached lists and one delete
\* per cached-only list.
C31_CycleTerminates ==
  /\ \A t \in Tasks : (pc[t] # "idle") ~> (pc[t] = "idle")
  /\ [][LET at(q) == IF q = "get_lists" THEN 1
                     ELSE IF q = "update_user_names" THEN 2
                     ELSE IF q = "get_items" THEN 0
                     ELSE IF q = "notify" THEN 1
                     ELSE IF q = "upsert_list" THEN 50
                     ELSE IF q = "upsert_item" THEN 51
                     ELSE IF q = "get_all_lists" THEN 0
                     ELSE 10
        IN \A t \in Tasks :
             (/\ pc[t] # "idle"
              /\ << pc[t], idx[t], outcomes[t], itemIdx[t], sweep[t], callOk[t] >>
                   # << pc'[t], idx'[t], outcomes'[t], itemIdx'[t], sweep'[t], callOk'[t] >>)
             => \/ pc'[t] = "idle"
                \/ 100 * idx'[t] + at(pc'[t]) + Len(outcomes'[t]) + itemIdx'[t] - Len(sweep'[t])
                     > 100 * idx[t] + at(pc[t]) + Len(outcomes[t]) + itemIdx[t] - Len(sweep[t])]_vars

\* The witness of C31: a cycle that a signal started has gone through its lists
\* and its sweep, which deleted the hardware list, and has returned Ok.
C31_Witness ==
  /\ signals >= 1
  /\ \A t \in Tasks : pc[t] = "idle"
  /\ \E t \in Tasks : result[t] = "ok"
  /\ Started
  /\ DOMAIN dbLists = {"L1"}

\* The startup run is under way: initialize_cache has not returned.
InStartup ==
  pc["main"] \in {"init_get_lists", "update_user_names", "upsert_list", "upsert_item"}

\* C32: the startup run dispatches nothing and deletes no list; what
\* changed remotely while the service was down is never reported by any cycle;
\* a cached list that is gone remotely stays until a cycle's sweep deletes it.
C32_StartupSilent ==
  /\ [](changes["main"] = <<>> /\ outcomes["main"] = <<>>)
  /\ [](InStartup => \A t \in Tasks : outcomes[t] = <<>>)
  /\ [][InStartup => (DOMAIN dbLists \subseteq DOMAIN dbLists'
                      /\ DOMAIN dbItems \subseteq DOMAIN dbItems')]_vars
  /\ [][~(DOMAIN dbLists \subseteq DOMAIN dbLists')
          => \E t \in Tasks : pc[t] = "delete_list"]_vars
  /\ [](\A t \in Tasks : changes[t] = <<>>)

C34_DispatchOncePerEvent ==
  /\ [][\A t \in Tasks :
          outcomes'[t] # outcomes[t]
          => \/ outcomes'[t] = <<>>
             \/ /\ pc[t] = "notify"
                /\ Len(outcomes[t]) < Len(changes[t])
                /\ outcomes'[t] = Append(outcomes[t], callOk'[t])
                /\ changes'[t] = changes[t]
                /\ pc'[t] = IF Len(outcomes'[t]) = Len(changes[t])
                            THEN "upsert_list" ELSE "notify"]_vars
  /\ [][\A t \in Tasks :
          (pc[t] = "notify" /\ CycleStep(t))
          => Len(outcomes'[t]) = Len(outcomes[t]) + 1 \/ pc'[t] # "notify"]_vars
  /\ [][\A t \in Tasks :
          (pc[t] = "get_items" /\ pc'[t] # "get_items" /\ callOk'[t])
          => /\ outcomes'[t] = <<>>
             /\ pc'[t] = IF changes'[t] = <<>> THEN "upsert_list" ELSE "notify"]_vars
  /\ [](\A t \in Tasks : pc[t] = "notify" => Len(outcomes[t]) < Len(changes[t]))

\* The witness of C34: the first of two events failed to be delivered and the loop
\* stands at the second one.
C34_Witness ==
  \E t \in Tasks :
    /\ pc[t] = "notify"
    /\ Len(changes[t]) = 2
    /\ outcomes[t] = << FALSE >>

\* C35: items are stored by item id alone. A successful upsert_item of an item
\* leaves one row with that id, under the list of the snapshot being written, so
\* no other list's get_items returns it; and a reconciliation of a list whose
\* fetched snapshot holds an item that is stored under another list reports the
\* item as ItemAdded for the list being reconciled (unless the filter drops it).
C35_ItemKeyedByIdAlone ==
  /\ [][\A p \in Procs :
          (/\ pc[p] = "upsert_item"
           /\ pc'[p] # "upsert_item" \/ itemIdx'[p] # itemIdx[p]
           /\ callOk'[p])
          => LET item == CurrentList(p).items[itemIdx[p]]
             IN /\ \E j \in DOMAIN dbItems' :
                     dbItems'[j].id = item.id /\ dbItems'[j].list_id = CurrentList(p).id
                /\ \A l \in ListIds \ {CurrentList(p).id} :
                     \A row \in {dbItems'[n] : n \in {m \in DOMAIN dbItems' :
                                                       dbItems'[m].list_id = l}} :
                       row.id # item.id]_vars
  /\ [][\A t \in Tasks :
          (pc[t] = "get_items" /\ pc'[t] # "get_items" /\ callOk'[t])
          => \A k \in 1..Len(CurrentList(t).items) :
               LET item == CurrentList(t).items[k]
               IN (item.id \in DOMAIN dbItems /\ dbItems[item.id].list_id # CurrentList(t).id)
                  => \/ filter_own /\ item.user_id = Some(Me)
                     \/ \E n \in 1..Len(changes'[t]) :
                          /\ changes'[t][n].type = "ItemAdded"
                          /\ changes'[t][n].list_id = CurrentList(t).id
                          /\ changes'[t][n].item = ItemInfo_from_list_item(item)]_vars

\* The witness of C35: i2 is in both fetched lists and its row was moved to L2;
\* the list row of L1 was last written from the very version now fetched, and the
\* cycle reports i2 as added to L1.
C35_Witness ==
  \E t \in Tasks :
    /\ pc[t] = "notify"
    /\ CurrentList(t).id = "L1"
    /\ writtenVer["L1"] = fetchedVer[t]
    /\ "i2" \in DOMAIN dbItems
    /\ dbItems["i2"].list_id = "L2"
    /\ \E n \in 1..Len(changes[t]) :
         changes[t][n].type = "ItemAdded" /\ changes[t][n].item.id = "i2"

\* The item a reported change is about.
ConcernsItem(change, item) ==
  IF change.type = "ItemAdded" THEN change.item.id = item.id
  ELSE change.item_name = item.name

\* C36: sync_list is not all-or-nothing. When an upsert_item fails, nothing is
\* taken back: the list row and the rows of the items before the failing one hold
\* the snapshot, and every step of the item loop changes no row but that of its
\* own item, so the other rows keep their previous values. A later reconciliation
\* of the list reports nothing about a fetched item whose row holds the fetched
\* values, and reports every fetched item whose row is missing or differs
\* (unless the own-change filter drops it).
C36_SyncListNotAtomic ==
  /\ [][\A p \in Procs :
          (pc[p] = "upsert_item" /\ pc'[p] # "upsert_item" /\ ~callOk'[p])
          => /\ dbLists' = dbLists /\ dbItems' = dbItems
             /\ dbLists[CurrentList(p).id] = DbListFrom(CurrentList(p))
             /\ \A k \in 1..(itemIdx[p] - 1) :
                  /\ CurrentList(p).items[k].id \in DOMAIN dbItems
                  /\ dbItems[CurrentList(p).items[k].id] = DbItemFrom(CurrentList(p).items[k])]_vars
  /\ [][\A p \in Procs :
          pc[p] = "upsert_item"
          => \A j \in DOMAIN dbItems :
               j # CurrentList(p).items[itemIdx[p]].id
               => j \in DOMAIN dbItems' /\ dbItems'[j] = dbItems[j]]_vars
  /\ [][\A t \in Tasks :
          (pc[t] = "get_items" /\ pc'[t] # "get_items" /\ callOk'[t])
          => \A k \in 1..Len(CurrentList(t).items) :
               LET item == CurrentList(t).items[k]
                   about == {n \in 1..Len(changes'[t]) : ConcernsItem(changes'[t][n], item)}
               IN IF item.id \in DOMAIN dbItems /\ dbItems[item.id] = DbItemFrom(item)
                  THEN about = {}
                  ELSE about # {} \/ (filter_own /\ item.user_id = Some(Me))]_vars

\* The witness of C36: the list row of L1 was written from the version now
\* fetched and the row of i1 holds the fetched values, but i2 of the same
\* snapshot has no row: the cycle reports i2, and only i2, as added.
C36_Witness ==
  \E t \in Tasks :
    /\ pc[t] = "notify"
    /\ CurrentList(t).id = "L1"
    /\ Len(CurrentList(t).items) = 2
    /\ writtenVer["L1"] = fetchedVer[t]
    /\ dbLists["L1"] = DbListFrom(CurrentList(t))
    /\ dbItems["i1"] = DbItemFrom(CurrentList(t).items[1])
    /\ "i2" \notin DOMAIN dbItems
    /\ Len(changes[t]) = 1
    /\ changes[t][1].type = "ItemAdded"
    /\ changes[t][1].item.id = "i2"

====
